---------------------------- MODULE Spec2Model ----------------------------
(***************************************************************************)
(* Model of the AFL LLVM-mode runtime of this repository                   *)
(* (src/br_pass/afl-2.52b/llvm_mode/afl-llvm-rt.o.c) and of the edge       *)
(* instrumentation emitted by the pass                                     *)
(* (src/approach_pass/llvm_mode/afl-llvm-pass.so.cc_obtain_br).            *)
(*                                                                         *)
(* Processes: process 0 is the process the controller launched; it runs    *)
(* __afl_map_shm and __afl_start_forkserver from the constructor.  The     *)
(* processes 1..MaxPid are the children it forks.  A process that is in    *)
(* target code calls the instrumentation and __afl_persistent_loop in any  *)
(* order.  The controller (afl-fuzz) is the environment: it decides the    *)
(* outcome of every read and write on the handshake descriptors and may    *)
(* SIGKILL a child.  A child in target code may also be stopped by a       *)
(* signal that is not the helper's own; nothing but the supervisor's       *)
(* SIGCONT (line 144) continues a stopped child.                           *)
(*                                                                         *)
(* is_persistent (line 59) is a file-scope flag that the runtime only      *)
(* reads: this translation unit holds no assignment to it.  It is a        *)
(* start-up parameter of the model (0 or 1, fixed for the whole run), so   *)
(* that the code it guards (lines 155, 187-192, 200-221) is exercised.     *)
(***************************************************************************)
EXTENDS Integers, Naturals, Sequences, FiniteSets, TLC

(* ------------------------------ bounds --------------------------------- *)

\* number of children the supervisor may fork in one run
MaxPid == 2

\* log2 of the size of the Feedback Map of the model (MAP_SIZE is 2^16 in AFL)
MapBits == 1

\* largest iteration budget target code passes to __afl_persistent_loop
MaxBudget == 2

\* instrumentation calls made in one run, over all processes
MaxOps == 1

\* log2 of the size of the map in a followed run of edge calls
EdgeBits == 2

\* calls in a followed run of edge calls
MaxEdgeRun == 2

\* calls in a followed run of recorder calls of one branch site
MaxBrRun == 3

\* instrumentation calls in a followed capture run
MaxCapRun == 2

\* calls in a followed run of calls of all kinds on one map
MaxMixRun == 3

MAP_SIZE == 2 ^ MapBits

\* go tokens the controller sends in one run
MaxReq == MaxPid + 1

\* calls of __afl_persistent_loop one process makes: enough to pass the stop
MaxCalls == MaxBudget + 2

\* a u32 is kept as its two 16-bit halves
Half == 2 ^ 16

U32Of(n) == [hi |-> (n \div Half) % Half, lo |-> n % Half]

\* --c on a u32: 0 wraps to 0xFFFFFFFF
U32Dec(c) ==
  IF c.lo > 0 THEN [c EXCEPT !.lo = @ - 1]
  ELSE IF c.hi > 0 THEN [hi |-> c.hi - 1, lo |-> Half - 1]
  ELSE [hi |-> Half - 1, lo |-> Half - 1]

Byte == 0 .. 255

Procs == 0 .. MaxPid

Children == 1 .. MaxPid

Keys == 0 .. (MAP_SIZE - 1)

\* the two handshake descriptors: FORKSRV_FD (controller to child) and
\* FORKSRV_FD + 1 (child to controller)
HandshakeFds == {"FORKSRV_FD", "FORKSRV_FD+1"}

\* what read and write return: an error, a short count, or all 4 bytes
IoResults == {-1, 2, 4}

\* values of the 4-byte go token (was_killed) the controller sends
Tokens == {0, 1}

\* budgets target code passes to __afl_persistent_loop
Budgets == 0 .. MaxBudget

(* ------------------------------ state ---------------------------------- *)

VARIABLES
  is_persistent,   \* line 59
  pc,              \* pc[p]: where process p is
  wstat,           \* wstat[p]: how process p ended, once it has
  mem,             \* mem[p]: the globals of process p (copied by fork)
  shm,             \* the shared-memory region the controller created
  child_pid,       \* line 97
  child_stopped,   \* line 99
  was_killed,      \* line 108
  status,          \* line 109
  n_fork,          \* children forked so far (the next pid is n_fork + 1)
  out,             \* history: what was written to FORKSRV_FD + 1 since the
                   \* last go token was read
  told,            \* history: the pids reported to the controller
  n_go,            \* history: go tokens read
  fault,           \* history: the failure the supervisor met, if any
  req,             \* history: how the current request was served
  n_ops,           \* history: instrumentation calls made
  hlp,             \* history: hlp[p], results of __afl_persistent_loop in p
  ub,              \* what the build made of signed overflow in op1 - op2
  start,           \* history: the active map and the register a run of
                   \* instrumentation calls started from
  trace            \* history: the instrumentation calls of that run

\* the locals of __afl_start_forkserver
locals == <<child_pid, child_stopped, was_killed, status>>

\* the globals of all processes
globals == <<is_persistent, mem, shm>>

\* the history of the target code
calls == <<n_ops, hlp>>

\* the run of instrumentation calls that is followed call by call
bench == <<ub, start, trace>>

vars == <<is_persistent, pc, wstat, mem, shm, child_pid, child_stopped,
          was_killed, status, n_fork, out, told, n_go, fault, req, n_ops, hlp,
          ub, start, trace>>

ZeroMap == [k \in Keys |-> 0]

\* globals of a process at load time: lines 51-54, 177-178
InitMem == [afl_area_ptr |-> "initial", afl_area_initial |-> ZeroMap,
            afl_prev_loc |-> 0, first_pass |-> 1, cycle_cnt |-> U32Of(0),
            fds |-> HandshakeFds]

\* a process that has ended has no memory
NoMem == [afl_area_ptr |-> "initial", afl_area_initial |-> ZeroMap,
          afl_prev_loc |-> 0, first_pass |-> 0, cycle_cnt |-> U32Of(0),
          fds |-> {}]

\* history of one process: calls of __afl_persistent_loop that returned, how
\* many returned 1 and 0, the budget of the first call, the last result, the
\* self-suspensions, and byte 0 of the active buffer at the last return
NoHlp == [calls |-> 0, trues |-> 0, falses |-> 0, budget |-> 0, last |-> -1,
          stops |-> 0, mark |-> 0, seen |-> 0, sig |-> 0]

\* history of one request: the last status relayed; at the read of the
\* token, the status the wait of the previous request gave, the child of the
\* previous request, child_stopped, the children forked and the token;
\* whether the kill-race reap was done; how the request was served ("fork"
\* or "cont")
NoReq == [last |-> "none", prev |-> "none", old |-> 0, stopped |-> FALSE,
          nf |-> 0, token |-> 0, reaped |-> FALSE, by |-> "none"]

\* a 4-byte message on FORKSRV_FD + 1
Msg(kind, pid, st) == [kind |-> kind, pid |-> pid, st |-> st]

\* no run of instrumentation calls is followed
NoStart == [area |-> <<>>, prev_loc |-> 0]

Init ==
  /\ is_persistent \in {0, 1}
  /\ pc = [p \in Procs |-> IF p = 0 THEN "map_shm" ELSE "none"]
  /\ wstat = [p \in Procs |-> "none"]
  /\ mem = [p \in Procs |-> IF p = 0 THEN InitMem ELSE NoMem]
  /\ shm = ZeroMap
  /\ child_pid = 0
  /\ child_stopped = 0
  /\ was_killed = 0
  /\ status = "none"
  /\ n_fork = 0
  /\ out = <<>>
  /\ told = {}
  /\ n_go = 0
  /\ fault = "none"
  /\ req = NoReq
  /\ n_ops = 0
  /\ hlp = [p \in Procs |-> NoHlp]
  /\ ub = "wraps"
  /\ start = NoStart
  /\ trace = <<>>

(* ------------------- shared-memory attach: lines 64-89 ----------------- *)

\* _exit(1)
Abort(why) ==
  /\ pc' = [pc EXCEPT ![0] = "aborted"]
  /\ fault' = why

\* __afl_map_shm: the handle is absent, attaches, or fails to attach
MapShm ==
  /\ pc[0] = "map_shm"
  /\ \E id_str \in {"absent", "ok", "bad"} :
       \/ /\ id_str = "absent"
          /\ pc' = [pc EXCEPT ![0] = "hello"]
          /\ UNCHANGED <<mem, shm, fault>>
       \/ /\ id_str = "ok"
          /\ mem' = [mem EXCEPT ![0].afl_area_ptr = "shm"]
          /\ shm' = [shm EXCEPT ![0] = 1]
          /\ pc' = [pc EXCEPT ![0] = "hello"]
          /\ UNCHANGED fault
       \/ /\ id_str = "bad"
          /\ Abort("shmat")
          /\ UNCHANGED <<mem, shm>>
  /\ UNCHANGED <<bench, is_persistent, wstat, locals, n_fork, out, told, n_go, req,
                 calls>>

(* ---------------------- fork server: lines 94-170 ---------------------- *)

\* Hello with _exit(1) in place of the return of line 104
Hello_Exit ==
  /\ pc[0] = "hello"
  /\ \E n \in IoResults :
       IF n # 4
         THEN /\ pc' = [pc EXCEPT ![0] = "aborted"]
              /\ fault' = "hello"
              /\ UNCHANGED out
         ELSE /\ pc' = [pc EXCEPT ![0] = "read"]
              /\ out' = Append(out, Msg("hello", 0, "none"))
              /\ UNCHANGED fault
  /\ UNCHANGED <<bench, globals, wstat, locals, n_fork, told, n_go, req, calls>>

\* line 104: the acknowledgement; on failure return to the caller, which goes
\* on into the program (lines 231-252)
Hello ==
  /\ pc[0] = "hello"
  /\ \E n \in IoResults :
       IF n # 4
         THEN /\ pc' = [pc EXCEPT ![0] = "target"]
              /\ fault' = "hello"
              /\ UNCHANGED out
         ELSE /\ pc' = [pc EXCEPT ![0] = "read"]
              /\ out' = Append(out, Msg("hello", 0, "none"))
              /\ UNCHANGED fault
  /\ UNCHANGED <<bench, globals, wstat, locals, n_fork, told, n_go, req, calls>>

\* ReadGo without the test and the waitpid of lines 119-122
ReadGo_NoRace ==
  /\ pc[0] = "read"
  /\ \E n \in IoResults, tok \in Tokens :
       IF n # 4
         THEN /\ Abort("read")
              /\ UNCHANGED <<was_killed, n_go, req, out>>
         ELSE /\ n_go < MaxReq
              /\ was_killed' = tok
              /\ n_go' = n_go + 1
              /\ out' = <<>>
              /\ req' = [req EXCEPT !.token = tok, !.old = child_pid,
                                     !.prev = req.last,
                                     !.stopped = (child_stopped # 0),
                                     !.nf = n_fork,
                                     !.reaped = FALSE, !.by = "none"]
              /\ pc' = [pc EXCEPT ![0] = "spawn"]
              /\ UNCHANGED fault
  /\ UNCHANGED <<bench, globals, wstat, child_pid, child_stopped, status, n_fork,
                 told, calls>>

\* lines 113-122 up to the blocking waitpid: read the go token, and write off
\* a stopped child that the controller says it killed
ReadGo ==
  /\ pc[0] = "read"
  /\ \E n \in IoResults, tok \in Tokens :
       IF n # 4
         THEN /\ Abort("read")
              /\ UNCHANGED <<was_killed, child_stopped, n_go, req, out>>
         ELSE /\ n_go < MaxReq
              /\ was_killed' = tok
              /\ n_go' = n_go + 1
              /\ out' = <<>>
              /\ req' = [req EXCEPT !.token = tok, !.old = child_pid,
                                     !.prev = req.last,
                                     !.stopped = (child_stopped # 0),
                                     !.nf = n_fork,
                                     !.reaped = FALSE, !.by = "none"]
              /\ IF child_stopped # 0 /\ tok # 0
                   THEN /\ child_stopped' = 0
                        /\ pc' = [pc EXCEPT ![0] = "reap"]
                   ELSE /\ pc' = [pc EXCEPT ![0] = "spawn"]
                        /\ UNCHANGED child_stopped
              /\ UNCHANGED fault
  /\ UNCHANGED <<bench, globals, wstat, child_pid, status, n_fork, told, calls>>

\* Reap with WNOHANG: the waitpid of line 121 returns while the child lives
Reap_NoHang ==
  /\ pc[0] = "reap"
  /\ \/ /\ Abort("reap")
        /\ UNCHANGED <<status, req>>
     \/ /\ status' = wstat[child_pid]
        /\ pc' = [pc EXCEPT ![0] = "spawn",
                            ![child_pid] = IF @ = "zombie" THEN "reaped" ELSE @]
        /\ req' = [req EXCEPT !.reaped = TRUE]
        /\ UNCHANGED fault
  /\ UNCHANGED <<bench, globals, wstat, child_pid, child_stopped, was_killed, n_fork,
                 out, told, n_go, calls>>

\* line 121: waitpid(child_pid, &status, 0) returns once the child has ended
Reap ==
  /\ pc[0] = "reap"
  /\ \/ /\ Abort("reap")
        /\ UNCHANGED <<status, req>>
     \/ /\ pc[child_pid] = "zombie"
        /\ status' = wstat[child_pid]
        /\ pc' = [pc EXCEPT ![0] = "spawn", ![child_pid] = "reaped"]
        /\ req' = [req EXCEPT !.reaped = TRUE]
        /\ UNCHANGED fault
  /\ UNCHANGED <<bench, globals, wstat, child_pid, child_stopped, was_killed, n_fork,
                 out, told, n_go, calls>>

\* Fork without the test of child_stopped of line 124
Fork_Unguarded ==
  /\ pc[0] = "spawn"
  /\ \/ /\ Abort("fork")
        /\ UNCHANGED <<child_pid, n_fork, mem, req>>
     \/ /\ n_fork < MaxPid
        /\ child_pid' = n_fork + 1
        /\ n_fork' = n_fork + 1
        /\ mem' = [mem EXCEPT ![n_fork + 1] = mem[0]]
        /\ pc' = [pc EXCEPT ![0] = "write_pid", ![n_fork + 1] = "forked"]
        /\ req' = [req EXCEPT !.by = "fork"]
        /\ UNCHANGED fault
  /\ UNCHANGED <<bench, is_persistent, shm, wstat, child_stopped, was_killed, status,
                 out, told, n_go, calls>>

\* lines 124-129: fork; the child is a copy of the supervisor
Fork ==
  /\ pc[0] = "spawn"
  /\ child_stopped = 0
  /\ \/ /\ Abort("fork")
        /\ UNCHANGED <<child_pid, n_fork, mem, req>>
     \/ /\ n_fork < MaxPid
        /\ child_pid' = n_fork + 1
        /\ n_fork' = n_fork + 1
        /\ mem' = [mem EXCEPT ![n_fork + 1] = mem[0]]
        /\ pc' = [pc EXCEPT ![0] = "write_pid", ![n_fork + 1] = "forked"]
        /\ req' = [req EXCEPT !.by = "fork"]
        /\ UNCHANGED fault
  /\ UNCHANGED <<bench, is_persistent, shm, wstat, child_stopped, was_killed, status,
                 out, told, n_go, calls>>

\* Cont that goes on to the waitpid of line 155 without the write of line 153
Cont_NoPid ==
  /\ pc[0] = "spawn"
  /\ child_stopped # 0
  /\ pc' = [pc EXCEPT ![0] = "wait",
                      ![child_pid] = CASE @ = "sigstopped" -> "resumed"
                                         [] @ = "stopped" -> "target"
                                         [] OTHER -> @]
  /\ child_stopped' = 0
  /\ req' = [req EXCEPT !.by = "cont"]
  /\ UNCHANGED <<bench, globals, wstat, child_pid, was_killed, status, n_fork, out,
                 told, n_go, fault, calls>>

\* lines 141-149: restart the stopped child with SIGCONT
Cont ==
  /\ pc[0] = "spawn"
  /\ child_stopped # 0
  /\ pc' = [pc EXCEPT ![0] = "write_pid",
                      ![child_pid] = CASE @ = "sigstopped" -> "resumed"
                                         [] @ = "stopped" -> "target"
                                         [] OTHER -> @]
  /\ child_stopped' = 0
  /\ req' = [req EXCEPT !.by = "cont"]
  /\ UNCHANGED <<bench, globals, wstat, child_pid, was_killed, status, n_fork, out,
                 told, n_go, fault, calls>>

\* WritePid that goes on after a failed write of line 153
WritePid_Unchecked ==
  /\ pc[0] = "write_pid"
  /\ \E n \in IoResults :
       IF n # 4
         THEN /\ fault' = "write_pid"
              /\ pc' = [pc EXCEPT ![0] = "wait"]
              /\ UNCHANGED <<out, told>>
         ELSE /\ out' = Append(out, Msg("pid", child_pid, "none"))
              /\ told' = told \cup {child_pid}
              /\ pc' = [pc EXCEPT ![0] = "wait"]
              /\ UNCHANGED fault
  /\ UNCHANGED <<bench, globals, wstat, locals, n_fork, n_go, req, calls>>

\* line 153: report the pid
WritePid ==
  /\ pc[0] = "write_pid"
  /\ \E n \in IoResults :
       IF n # 4
         THEN /\ Abort("write_pid")
              /\ UNCHANGED <<out, told>>
         ELSE /\ out' = Append(out, Msg("pid", child_pid, "none"))
              /\ told' = told \cup {child_pid}
              /\ pc' = [pc EXCEPT ![0] = "wait"]
              /\ UNCHANGED fault
  /\ UNCHANGED <<bench, globals, wstat, locals, n_fork, n_go, req, calls>>

\* waitpid with WNOHANG: it reports at once
WaitReady_NoHang(p, options) == TRUE

\* a waitpid that reports the end of the child only, whatever the options
WaitReady_ExitOnly(p, options) == pc[p] = "zombie"

\* what waitpid(p, &status, options) has to report
WaitReady(p, options) ==
  \/ pc[p] = "zombie"
  \/ options = "WUNTRACED" /\ pc[p] \in {"sigstopped", "stopped"}

\* Wait that asks for stops too (WUNTRACED) whatever is_persistent says
Wait_Untraced ==
  /\ pc[0] = "wait"
  /\ \/ /\ Abort("wait")
        /\ UNCHANGED <<status, child_stopped, hlp>>
     \/ /\ WaitReady(child_pid, "WUNTRACED")
        /\ IF pc[child_pid] = "zombie"
             THEN /\ status' = wstat[child_pid]
                  /\ pc' = [pc EXCEPT ![0] = "relay", ![child_pid] = "reaped"]
                  /\ UNCHANGED <<child_stopped, hlp>>
             ELSE /\ status' = "stopped"
                  /\ pc' = [pc EXCEPT ![0] = "relay"]
                  /\ child_stopped' = 1
                  /\ hlp' = [hlp EXCEPT ![child_pid].seen = @ + 1]
        /\ UNCHANGED fault
  /\ UNCHANGED <<bench, globals, wstat, child_pid, was_killed, n_fork, out, told,
                 n_go, req, n_ops>>

\* lines 155-162: wait for the child; WIFSTOPPED(status) sets child_stopped
Wait ==
  /\ pc[0] = "wait"
  /\ \/ /\ Abort("wait")
        /\ UNCHANGED <<status, child_stopped, hlp>>
     \/ /\ WaitReady(child_pid, IF is_persistent # 0 THEN "WUNTRACED" ELSE "0")
        /\ IF pc[child_pid] = "zombie"
             THEN /\ status' = wstat[child_pid]
                  /\ pc' = [pc EXCEPT ![0] = "relay", ![child_pid] = "reaped"]
                  /\ UNCHANGED <<child_stopped, hlp>>
             ELSE /\ status' = "stopped"
                  /\ pc' = [pc EXCEPT ![0] = "relay"]
                  /\ child_stopped' = 1
                  /\ hlp' = [hlp EXCEPT ![child_pid].seen = @ + 1]
        /\ UNCHANGED fault
  /\ UNCHANGED <<bench, globals, wstat, child_pid, was_killed, n_fork, out, told,
                 n_go, req, n_ops>>

\* line 166: relay the status, then loop back to line 106
Relay ==
  /\ pc[0] = "relay"
  /\ \E n \in IoResults :
       IF n # 4
         THEN /\ Abort("write_status")
              /\ UNCHANGED <<out, req, status>>
         ELSE /\ out' = Append(out, Msg("status", 0, status))
              /\ pc' = [pc EXCEPT ![0] = "read"]
              /\ req' = [req EXCEPT !.last = status]
              /\ status' = "none"
              /\ UNCHANGED fault
  /\ UNCHANGED <<bench, globals, wstat, child_pid, child_stopped, was_killed, n_fork,
                 told, n_go, calls>>

(* ----------------------------- a child --------------------------------- *)

\* ChildCloseFds without the close of line 136
ChildCloseFds_One(p) ==
  /\ pc[p] = "forked"
  /\ mem' = [mem EXCEPT ![p].fds = @ \ {"FORKSRV_FD"}]
  /\ pc' = [pc EXCEPT ![p] = "target"]
  /\ UNCHANGED <<bench, is_persistent, shm, wstat, locals, n_fork, out, told, n_go,
                 fault, req, calls>>

\* lines 133-139: the child closes both descriptors and returns to the target
ChildCloseFds(p) ==
  /\ pc[p] = "forked"
  /\ mem' = [mem EXCEPT ![p].fds = (@ \ {"FORKSRV_FD"}) \ {"FORKSRV_FD+1"}]
  /\ pc' = [pc EXCEPT ![p] = "target"]
  /\ UNCHANGED <<bench, is_persistent, shm, wstat, locals, n_fork, out, told, n_go,
                 fault, req, calls>>

\* a process ends: its memory is gone; a child stays a zombie until waited for
End(p, how) ==
  /\ pc' = [pc EXCEPT ![p] = IF p = 0 THEN "done" ELSE "zombie"]
  /\ wstat' = [wstat EXCEPT ![p] = how]
  /\ mem' = [mem EXCEPT ![p] = NoMem]
  /\ hlp' = [hlp EXCEPT ![p] = NoHlp]

\* the target returns from main or calls exit
TargetExit(p) ==
  /\ pc[p] = "target"
  /\ End(p, "exited")
  /\ UNCHANGED <<bench, is_persistent, shm, locals, n_fork, out, told, n_go, fault,
                 req, n_ops>>

\* the controller kills a child whose pid it has been told (a timeout)
CtlKill(p) ==
  /\ p \in Children
  /\ pc[p] \in {"forked", "target", "sigstopped", "stopped", "resumed"}
  /\ p \in told
  /\ End(p, "killed")
  /\ UNCHANGED <<bench, is_persistent, shm, locals, n_fork, out, told, n_go, fault,
                 req, n_ops>>

\* a stop signal that is not the helper's own (SIGSTOP, SIGTSTP, ...) reaches
\* a child in target code; only the SIGCONT of line 144 or a kill ends the stop
StopSignal(p) ==
  /\ p \in Children
  /\ pc[p] = "target"
  /\ pc' = [pc EXCEPT ![p] = "stopped"]
  /\ hlp' = [hlp EXCEPT ![p].sig = @ + 1]
  /\ UNCHANGED <<bench, globals, wstat, child_pid, child_stopped, was_killed,
                 status, n_fork, out, told, n_go, fault, req, n_ops>>

(* ---------------------- the active Feedback Map ------------------------ *)

\* the buffer __afl_area_ptr of a process with globals m points to
Area(m, s) == IF m.afl_area_ptr = "shm" THEN s ELSE m.afl_area_initial

\* the globals and the shared region after the active buffer becomes a
Store(m, s, a) ==
  IF m.afl_area_ptr = "shm"
    THEN [m |-> m, s |-> a]
    ELSE [m |-> [m EXCEPT !.afl_area_initial = a], s |-> s]

RECURSIVE Xor(_, _)
\* bitwise exclusive or of two naturals
Xor(a, b) ==
  IF a = 0 THEN b
  ELSE IF b = 0 THEN a
  ELSE ((a + b) % 2) + 2 * Xor(a \div 2, b \div 2)

(* ------------- edge coverage: pass lines 136-161, rt 262-264 ----------- *)

\* the inserted code with a store of cur_loc for cur_loc >> 1 in line 160
record_edge_NoShift(m, s, cur) ==
  LET key == Xor(m.afl_prev_loc, cur)
      a   == Area(m, s)
      r   == Store(m, s, [a EXCEPT ![key] = (@ + 1) % 256])
  IN  [m |-> [r.m EXCEPT !.afl_prev_loc = cur], s |-> r.s]

\* the inserted code with cur_loc << 1 for cur_loc >> 1 in line 160
record_edge_ShiftLeft(m, s, cur) ==
  LET key == Xor(m.afl_prev_loc, cur)
      a   == Area(m, s)
      r   == Store(m, s, [a EXCEPT ![key] = (@ + 1) % 256])
  IN  [m |-> [r.m EXCEPT !.afl_prev_loc = cur * 2], s |-> r.s]

\* the inserted code with an add that stops at 255 in line 154
record_edge_Saturating(m, s, cur) ==
  LET key == Xor(m.afl_prev_loc, cur)
      a   == Area(m, s)
      r   == Store(m, s, [a EXCEPT ![key] = IF @ = 255 THEN 255 ELSE @ + 1])
  IN  [m |-> [r.m EXCEPT !.afl_prev_loc = cur \div 2], s |-> r.s]

\* the code the pass inserts in a basic block whose location is cur
record_edge(m, s, cur) ==
  LET key == Xor(m.afl_prev_loc, cur)
      a   == Area(m, s)
      r   == Store(m, s, [a EXCEPT ![key] = (@ + 1) % 256])
  IN  [m |-> [r.m EXCEPT !.afl_prev_loc = cur \div 2], s |-> r.s]

\* __sanitizer_cov_trace_pc_guard: __afl_area_ptr[*guard]++
sanitizer_cov_trace_pc_guard(m, s, guard) ==
  LET a == Area(m, s)
  IN  Store(m, s, [a EXCEPT ![guard] = (@ + 1) % 256])

(* --------------------- branch recorders: lines 399-838 ----------------- *)

\* a byte read through a char pointer
SChar(b) == IF b >= 128 THEN b - 256 ELSE b

\* the comparison kinds the switch of log_br8 has a case for
BrKinds == {0, 1, 2, 3, 4, 5, 6, 7, 8, 9, 11}

\* the case of kinds 3 and 4 with br_dist > 0 for br_dist >= 0 in line 442
ThisPolarity_NoTie(type, br_dist) ==
  CASE type \in {0, 1}     -> br_dist > 0
    [] type \in {2, 7, 11} -> br_dist = 0
    [] type \in {3, 4}     -> br_dist > 0
    [] type \in {5, 6}     -> br_dist < 0
    [] type \in {8, 9}     -> br_dist <= 0

\* the first if of each case of the switch: lines 407, 425, 442, 459, 476
ThisPolarity(type, br_dist) ==
  CASE type \in {0, 1}     -> br_dist > 0
    [] type \in {2, 7, 11} -> br_dist = 0
    [] type \in {3, 4}     -> br_dist >= 0
    [] type \in {5, 6}     -> br_dist < 0
    [] type \in {8, 9}     -> br_dist <= 0

\* the if-chains with 2 for 3 in line 419
BrCell_Overwrite(val, this) ==
  IF this
    THEN IF val = 0 THEN 1 ELSE IF val = 2 THEN 3 ELSE val
    ELSE IF val = 0 THEN 2 ELSE IF val = 1 THEN 2 ELSE val

\* the if-chains with val == 1 for val == 2 in line 411
BrCell_Eager(val, this) ==
  IF this
    THEN IF val = 0 THEN 1 ELSE IF val = 1 THEN 3 ELSE val
    ELSE IF val = 0 THEN 2 ELSE IF val = 1 THEN 3 ELSE val

\* the two inner if-chains of each case: lines 409-412 and 416-419
BrCell(val, this) ==
  IF this
    THEN IF val = 0 THEN 1 ELSE IF val = 2 THEN 3 ELSE val
    ELSE IF val = 0 THEN 2 ELSE IF val = 1 THEN 3 ELSE val

\* log_br8(br_id, type, op1, op2, constant_loc)
log_br8(m, s, br_id, type, op1, op2) ==
  LET br_dist == op1 - op2
      a       == Area(m, s)
      val     == SChar(a[br_id])
  IN  IF val = 3 \/ type \notin BrKinds
        THEN [m |-> m, s |-> s]
        ELSE Store(m, s, [a EXCEPT ![br_id] =
                            BrCell(val, ThisPolarity(type, br_dist)) % 256])

\* the body that stores the polarity of the call, whatever the cell holds
log_br_Last(m, s, br_id, type, br_dist) ==
  LET a == Area(m, s)
  IN  IF type \notin BrKinds
        THEN [m |-> m, s |-> s]
        ELSE Store(m, s, [a EXCEPT ![br_id] =
                            IF ThisPolarity(type, br_dist) THEN 1 ELSE 2])

\* lines 500-593, 598-691, 696-789: the body log_br16, log_br32 and log_br64
\* share with log_br8, for the br_dist each of them computes
log_br(m, s, br_id, type, br_dist) ==
  LET a   == Area(m, s)
      val == SChar(a[br_id])
  IN  IF val = 3 \/ type \notin BrKinds
        THEN [m |-> m, s |-> s]
        ELSE Store(m, s, [a EXCEPT ![br_id] =
                            BrCell(val, ThisPolarity(type, br_dist)) % 256])

\* log_br16(br_id, type, op1, op2, constant_loc): the shorts are promoted
log_br16(m, s, br_id, type, op1, op2) == log_br(m, s, br_id, type, op1 - op2)

\* INT_MAX and INT_MIN of a 32-bit int
IntMax == (2 ^ 30 - 1) * 2 + 1
IntMin == (-IntMax) - 1

\* op1 - op2 is outside the range of int
Ovf32(op1, op2) ==
  \/ op1 >= 0 /\ op2 < 0 /\ op1 > IntMax + op2
  \/ op1 < 0 /\ op2 >= 0 /\ op1 < IntMin + op2

\* op1 - op2 in 32-bit two's complement
Sub32(op1, op2) ==
  IF ~Ovf32(op1, op2) THEN op1 - op2
  ELSE IF op1 >= 0 THEN ((op1 + IntMin) - op2) + IntMin
  ELSE ((op1 - IntMin) - op2) - IntMin

\* what the tests of br_dist see of int br_dist = op1 - op2 (line 597).
\* Signed overflow is undefined: a build either wraps ("wraps") or turns
\* the tests into comparisons of the operands ("folded"), which see the
\* sign of the exact difference
br_dist32(op1, op2, u) ==
  IF Ovf32(op1, op2) /\ u = "folded"
    THEN IF op1 > op2 THEN 1 ELSE -1
    ELSE Sub32(op1, op2)

\* log_br32(br_id, type, op1, op2, constant_loc)
log_br32(m, s, br_id, type, op1, op2, u) ==
  log_br(m, s, br_id, type, br_dist32(op1, op2, u))

\* a long long is kept as its two 32-bit halves, hi signed and lo the bit
\* pattern of the low half read as an int
LL(hi, lo) == [hi |-> hi, lo |-> lo]

\* x < y for two low halves, as unsigned
ULess(x, y) == IF (x < 0) = (y < 0) THEN x < y ELSE y < 0

\* -1, 0 or 1 as op1 is less than, equal to or greater than op2
Cmp64(op1, op2) ==
  IF op1.hi # op2.hi THEN (IF op1.hi < op2.hi THEN -1 ELSE 1)
  ELSE IF op1.lo = op2.lo THEN 0
  ELSE IF ULess(op1.lo, op2.lo) THEN -1 ELSE 1

\* op1 - op2 is outside the range of long long
Ovf64(op1, op2) ==
  LET borrow == IF ULess(op1.lo, op2.lo) THEN 1 ELSE 0
  IN  \/ op1.hi >= 0 /\ op2.hi < 0 /\ op1.hi > (IntMax + op2.hi) + borrow
      \/ op1.hi < 0 /\ op2.hi >= 0 /\ op1.hi < (IntMin + op2.hi) + borrow

\* the sign of long long br_dist = op1 - op2 (line 695) as the tests see it:
\* a wrapped difference has the sign opposite to the exact one
br_dist64(op1, op2, u) ==
  IF Ovf64(op1, op2) /\ u = "wraps"
    THEN -Cmp64(op1, op2)
    ELSE Cmp64(op1, op2)

\* log_br64(br_id, type, op1, op2, constant_loc)
log_br64(m, s, br_id, type, op1, op2, u) ==
  log_br(m, s, br_id, type, br_dist64(op1, op2, u))

\* log_strcmp(br_id, type, ret, constant_loc): lines 792-812
log_strcmp(m, s, br_id, type, ret) ==
  LET br_dist == ret
      a       == Area(m, s)
      val     == SChar(a[br_id])
  IN  IF val = 3
        THEN [m |-> m, s |-> s]
        ELSE Store(m, s, [a EXCEPT ![br_id] = BrCell(val, br_dist = 0) % 256])

\* log_strncmp that packs the length as len << 1
log_strncmp_Shift1(m, s, br_id, type, len, ret) ==
  LET br_dist == ret
      a       == Area(m, s)
      val     == a[br_id] % 4
      new     == BrCell(val, br_dist = 0)
  IN  IF val = 3 \/ new = val
        THEN [m |-> m, s |-> s]
        ELSE Store(m, s, [a EXCEPT ![br_id] = (new + len * 2) % 256])

\* log_strncmp(br_id, type, len, ret, constant_loc): lines 814-838.  The
\* cell read is masked to its two low bits; the cell written holds the new
\* state plus len << 2, cut to a char
log_strncmp(m, s, br_id, type, len, ret) ==
  LET br_dist == ret
      a       == Area(m, s)
      val     == a[br_id] % 4
      new     == BrCell(val, br_dist = 0)
  IN  IF val = 3 \/ new = val
        THEN [m |-> m, s |-> s]
        ELSE Store(m, s, [a EXCEPT ![br_id] = (new + len * 4) % 256])

(* ----------------------- capture: lines 320-396 ------------------------ *)

\* ((int *)a)[i]: the four bytes from 4 * i on as a little-endian int
Word(a, i) ==
  a[4 * i] + a[4 * i + 1] * 2 ^ 8 + a[4 * i + 2] * 2 ^ 16
    + SChar(a[4 * i + 3]) * 2 ^ 24

\* ((int *)a)[i] = v
PutWord(a, i, v) ==
  [k \in DOMAIN a |->
     IF k \in (4 * i) .. (4 * i + 3)
       THEN (v \div 2 ^ (8 * (k - 4 * i))) % 256
       ELSE a[k]]

\* the body without the test of br_id against target_br_id
check_br_NoTest(m, s, br_id, w1, w2) ==
  LET a == Area(m, s)
      r == Store(m, s, PutWord(PutWord(PutWord(a, 1, w1), 2, w2), 3, 12))
  IN  [m |-> r.m, s |-> r.s, exit |-> TRUE]

\* the body the six capture functions share, for the ints w1 and w2 each
\* makes of its operands; exit says that exit(0) is called
check_br(m, s, br_id, w1, w2) ==
  LET a            == Area(m, s)
      target_br_id == Word(a, 0)
  IN  IF br_id = target_br_id
        THEN LET r == Store(m, s,
                        PutWord(PutWord(PutWord(a, 1, w1), 2, w2), 3, 12))
             IN  [m |-> r.m, s |-> r.s, exit |-> TRUE]
        ELSE [m |-> m, s |-> s, exit |-> FALSE]

\* check_br8, check_br16, check_br32: (int)op keeps the value
check_br8(m, s, br_id, op1, op2) == check_br(m, s, br_id, op1, op2)

check_br16(m, s, br_id, op1, op2) == check_br(m, s, br_id, op1, op2)

check_br32(m, s, br_id, op1, op2) == check_br(m, s, br_id, op1, op2)

\* check_br64: (int)op keeps the low 32 bits of a long long
check_br64(m, s, br_id, op1, op2) == check_br(m, s, br_id, op1.lo, op2.lo)

\* op[0] of a string, kept as the sequence of its chars before the NUL
FirstChar(op) == IF Len(op) = 0 THEN 0 ELSE op[1]

\* check_strcmp and check_strncmp: (int)(op[0])
check_strcmp(m, s, br_id, op1, op2) ==
  check_br(m, s, br_id, FirstChar(op1), FirstChar(op2))

check_strncmp(m, s, br_id, op1, op2) ==
  check_br(m, s, br_id, FirstChar(op1), FirstChar(op2))

(* ------------------ persistent loop: lines 175-225 --------------------- *)

\* the first pass of __afl_persistent_loop: lines 180-198
FirstPass(m, s, persistent, max_cnt) ==
  LET r == IF persistent # 0
             THEN LET a == Area(m, s)
                      z == Store(m, s, [k \in DOMAIN a |->
                                          IF k = 0 THEN 1 ELSE 0])
                  IN  [m |-> [z.m EXCEPT !.afl_prev_loc = 0], s |-> z.s]
             ELSE [m |-> m, s |-> s]
  IN  [m |-> [r.m EXCEPT !.cycle_cnt = U32Of(max_cnt), !.first_pass = 0],
       s |-> r.s, ret |-> 1]

\* __afl_persistent_loop without the test of is_persistent of line 187
afl_persistent_loop_NoGuard(m, s, persistent, max_cnt) ==
  IF m.first_pass # 0
    THEN FirstPass(m, s, 1, max_cnt)
    ELSE IF persistent # 0
      THEN LET c == U32Dec(m.cycle_cnt)
           IN  IF c # U32Of(0)
                 THEN [m |-> [m EXCEPT !.cycle_cnt = c], s |-> s, ret |-> -1]
                 ELSE [m |-> [m EXCEPT !.cycle_cnt = c,
                                       !.afl_area_ptr = "initial"],
                       s |-> s, ret |-> 0]
      ELSE [m |-> m, s |-> s, ret |-> 0]

\* __afl_persistent_loop without the pivot of line 217
afl_persistent_loop_NoPivot(m, s, persistent, max_cnt) ==
  IF m.first_pass # 0
    THEN FirstPass(m, s, persistent, max_cnt)
    ELSE IF persistent # 0
      THEN LET c == U32Dec(m.cycle_cnt)
           IN  IF c # U32Of(0)
                 THEN [m |-> [m EXCEPT !.cycle_cnt = c], s |-> s, ret |-> -1]
                 ELSE [m |-> [m EXCEPT !.cycle_cnt = c], s |-> s, ret |-> 0]
      ELSE [m |-> m, s |-> s, ret |-> 0]

\* __afl_persistent_loop with the pivot of line 217 made before the test of
\* the budget
afl_persistent_loop_EarlyPivot(m, s, persistent, max_cnt) ==
  IF m.first_pass # 0
    THEN FirstPass(m, s, persistent, max_cnt)
    ELSE IF persistent # 0
      THEN LET c == U32Dec(m.cycle_cnt)
           IN  [m |-> [m EXCEPT !.cycle_cnt = c, !.afl_area_ptr = "initial"],
                s |-> s, ret |-> IF c # U32Of(0) THEN -1 ELSE 0]
      ELSE [m |-> m, s |-> s, ret |-> 0]

\* __afl_persistent_loop(max_cnt) up to its return or its raise(SIGSTOP):
\* ret is the value returned, or -1 when the process has stopped itself
afl_persistent_loop(m, s, persistent, max_cnt) ==
  IF m.first_pass # 0
    THEN FirstPass(m, s, persistent, max_cnt)
    ELSE IF persistent # 0
      THEN LET c == U32Dec(m.cycle_cnt)
           IN  IF c # U32Of(0)
                 THEN [m |-> [m EXCEPT !.cycle_cnt = c], s |-> s, ret |-> -1]
                 ELSE [m |-> [m EXCEPT !.cycle_cnt = c,
                                       !.afl_area_ptr = "initial"],
                       s |-> s, ret |-> 0]
      ELSE [m |-> m, s |-> s, ret |-> 0]

\* lines 206-209: after the SIGCONT
afl_persistent_loop_resume(m, s) ==
  LET a == Area(m, s)
      r == Store(m, s, [a EXCEPT ![0] = 1])
  IN  [m |-> [r.m EXCEPT !.afl_prev_loc = 0], s |-> r.s, ret |-> 1]

(* ----------------------- a process in target code ---------------------- *)

\* operands the target passes to the 8-bit recorder
Ops8 == {0, 1}

\* comparison kinds the target passes
Kinds == {0, 2}

Instrumented(p, r) ==
  /\ mem' = [mem EXCEPT ![p] = r.m]
  /\ shm' = r.s
  /\ n_ops' = n_ops + 1
  /\ UNCHANGED <<bench, is_persistent, pc, wstat, locals, n_fork, out, told, n_go,
                 fault, req, hlp>>

RecordEdge(p, cur) ==
  /\ pc[p] = "target"
  /\ n_ops < MaxOps
  /\ Instrumented(p, record_edge(mem[p], shm, cur))

RecordGuard(p, guard) ==
  /\ pc[p] = "target"
  /\ n_ops < MaxOps
  /\ Instrumented(p, sanitizer_cov_trace_pc_guard(mem[p], shm, guard))

LogBr8(p, br_id, type, op1, op2) ==
  /\ pc[p] = "target"
  /\ n_ops < MaxOps
  /\ Instrumented(p, log_br8(mem[p], shm, br_id, type, op1, op2))

\* the history of a call of __afl_persistent_loop that gave r
Called(h, first, max_cnt, r) ==
  [h EXCEPT !.calls  = IF r.ret = -1 THEN @ ELSE @ + 1,
            !.budget = IF first THEN max_cnt ELSE @,
            !.trues  = IF r.ret = 1 THEN @ + 1 ELSE @,
            !.falses = IF r.ret = 0 THEN @ + 1 ELSE @,
            !.stops  = IF r.ret = -1 THEN @ + 1 ELSE @,
            !.last   = IF r.ret = -1 THEN @ ELSE r.ret,
            !.mark   = IF r.ret = -1 THEN @ ELSE Area(r.m, r.s)[0]]

\* the target calls __afl_persistent_loop(max_cnt)
PersistentLoop(p, max_cnt) ==
  /\ pc[p] = "target"
  /\ hlp[p].calls < MaxCalls
  /\ LET r == afl_persistent_loop(mem[p], shm, is_persistent, max_cnt)
     IN  /\ mem' = [mem EXCEPT ![p] = r.m]
         /\ shm' = r.s
         /\ pc' = [pc EXCEPT ![p] = IF r.ret = -1 THEN "sigstopped" ELSE @]
         /\ hlp' = [hlp EXCEPT ![p] =
                      Called(@, mem[p].first_pass # 0, max_cnt, r)]
  /\ UNCHANGED <<bench, is_persistent, wstat, locals, n_fork, out, told, n_go, fault,
                 req, n_ops>>

\* a stopped process that got SIGCONT finishes the call
LoopResume(p) ==
  /\ pc[p] = "resumed"
  /\ LET r == afl_persistent_loop_resume(mem[p], shm)
     IN  /\ mem' = [mem EXCEPT ![p] = r.m]
         /\ shm' = r.s
         /\ pc' = [pc EXCEPT ![p] = "target"]
         /\ hlp' = [hlp EXCEPT ![p] = Called(@, FALSE, 0, r)]
  /\ UNCHANGED <<bench, is_persistent, wstat, locals, n_fork, out, told, n_go, fault,
                 req, n_ops>>

(* --------------------------- specification ----------------------------- *)

Supervisor ==
  \/ MapShm
  \/ Hello
  \/ ReadGo
  \/ Reap
  \/ Fork
  \/ Cont
  \/ WritePid
  \/ Wait
  \/ Relay

Target(p) ==
  \/ ChildCloseFds(p)
  \/ \E cur \in Keys : RecordEdge(p, cur)
  \/ \E guard \in Keys : RecordGuard(p, guard)
  \/ \E br_id \in Keys, type \in Kinds, op1 \in Ops8, op2 \in Ops8 :
       LogBr8(p, br_id, type, op1, op2)
  \/ \E max_cnt \in Budgets : PersistentLoop(p, max_cnt)
  \/ LoopResume(p)
  \/ TargetExit(p)

Next ==
  \/ Supervisor
  \/ \E p \in Procs : Target(p)
  \/ \E p \in Children : CtlKill(p)
  \/ \E p \in Children : StopSignal(p)

Spec == Init /\ [][Next]_vars

\* the supervisor is a sequential process that is scheduled: a call it has
\* reached is made, and a blocking call returns once it can (lines 119-166);
\* so is a child up to its target code (lines 133-137) and in the helper
\* after the SIGCONT (lines 206-209).  No fairness on the read of line 113:
\* the controller sends a token when it wants.  Nothing makes a call fail:
\* the fairness is on the steps on which the call succeeds
Succeeds == pc'[0] # "aborted"

Fairness ==
  /\ WF_vars(Reap /\ Succeeds)
  /\ WF_vars(Fork /\ Succeeds)
  /\ WF_vars(Cont)
  /\ WF_vars(WritePid /\ Succeeds)
  /\ WF_vars(Wait /\ Succeeds)
  /\ WF_vars(Relay /\ Succeeds)
  /\ \A p \in Children : WF_vars(ChildCloseFds(p)) /\ WF_vars(LoopResume(p))

SpecFair == Init /\ [][Next]_vars /\ Fairness

(* ------------------- a run of edge calls, call by call ------------------ *)

EDGE_SIZE == 2 ^ EdgeBits

EdgeKeys == 0 .. (EDGE_SIZE - 1)

\* counter values the run starts from: fresh, and next to the 8-bit limit
ByteSample == {0, 1, 254, 255}

\* a process that runs target code itself, with the shared region attached:
\* the state after __afl_map_shm and a failed hello write
Alone(st, persistent) ==
  /\ is_persistent = persistent
  /\ pc = [p \in Procs |-> IF p = 0 THEN "target" ELSE "none"]
  /\ wstat = [p \in Procs |-> "none"]
  /\ mem = [p \in Procs |->
              IF p = 0 THEN [InitMem EXCEPT !.afl_area_ptr = "shm",
                                            !.afl_prev_loc = st.prev_loc]
                       ELSE NoMem]
  /\ shm = st.area
  /\ child_pid = 0
  /\ child_stopped = 0
  /\ was_killed = 0
  /\ status = "none"
  /\ n_fork = 0
  /\ out = <<>>
  /\ told = {}
  /\ n_go = 0
  /\ fault = "hello"
  /\ req = NoReq
  /\ n_ops = 0
  /\ hlp = [p \in Procs |-> NoHlp]
  /\ start = st
  /\ trace = <<>>

\* the same without persistent mode
Standalone(st) == Alone(st, 0)

\* what a followed run leaves alone
idle == <<is_persistent, pc, wstat, locals, n_fork, out, told, n_go, fault,
          req, calls, ub, start>>

\* the map holds any counters and the register any cur_loc >> 1
InitEdge ==
  /\ ub = "wraps"
  /\ \E v \in ByteSample, r \in 0 .. (EDGE_SIZE \div 2 - 1) :
       Standalone([area |-> [k \in EdgeKeys |-> (v + k) % 256],
                   prev_loc |-> r])

\* the target runs a basic block whose location is cur
EdgeCall(cur) ==
  /\ pc[0] = "target"
  /\ Len(trace) < MaxEdgeRun
  /\ LET r == record_edge(mem[0], shm, cur)
     IN  /\ mem' = [mem EXCEPT ![0] = r.m]
         /\ shm' = r.s
  /\ trace' = Append(trace, [fn |-> "record_edge", arg |-> cur])
  /\ UNCHANGED idle

\* the target runs an edge whose guard holds guard
GuardCall(guard) ==
  /\ pc[0] = "target"
  /\ Len(trace) < MaxEdgeRun
  /\ LET r == sanitizer_cov_trace_pc_guard(mem[0], shm, guard)
     IN  /\ mem' = [mem EXCEPT ![0] = r.m]
         /\ shm' = r.s
  /\ trace' = Append(trace, [fn |-> "trace_pc_guard", arg |-> guard])
  /\ UNCHANGED idle

NextEdge ==
  \/ \E cur \in EdgeKeys : EdgeCall(cur)
  \/ \E guard \in EdgeKeys : GuardCall(guard)

SpecEdge == InitEdge /\ [][NextEdge]_vars

(* ------------- a run of recorder calls of one branch site -------------- *)

\* the recorders and the operand pairs the run draws from: ties, both
\* orders, and the pairs whose difference leaves the operand type
IntRecorders == {"log_br8", "log_br16", "log_br32", "log_br64"}

Pairs8 == {<<0, 0>>, <<1, 0>>, <<0, 1>>, <<127, -128>>, <<-128, 127>>}

Pairs16 == {<<0, 0>>, <<1, 0>>, <<0, 1>>, <<32767, -32768>>, <<-32768, 32767>>}

Pairs32 == {<<0, 0>>, <<1, 0>>, <<0, 1>>, <<IntMax, -1>>, <<IntMin, 1>>}

Pairs64 == {<<LL(0, 0), LL(0, 0)>>, <<LL(1, 0), LL(0, -1)>>,
            <<LL(0, 1), LL(0, IntMin)>>, <<LL(IntMax, -1), LL(-1, -1)>>,
            <<LL(IntMin, 0), LL(0, 1)>>}

\* results of strcmp and strncmp, and lengths passed to strncmp
StrRets == {-1, 0, 1}
StrLens == {0, 1, 3, 64, 255}

\* a branch site: the recorder the pass inserted there and its kind
Sites ==
  [fn : IntRecorders, kind : 0 .. 11] \cup
  [fn : {"log_strcmp", "log_strncmp"}, kind : {0}]

\* the cell of the site is unseen, the other bytes of the map hold anything
InitBr ==
  /\ ub \in {"wraps", "folded"}
  /\ \E site \in Sites, br_id \in EdgeKeys :
       Standalone([area |-> [k \in EdgeKeys |->
                              IF k = br_id THEN 0 ELSE (k + 3) % 256],
                   prev_loc |-> 0, fn |-> site.fn, kind |-> site.kind,
                   br_id |-> br_id])

\* the target runs the site: the recorder gives r
Recorded(fn, a, b, r) ==
  /\ pc[0] = "target"
  /\ start.fn = fn
  /\ Len(trace) < MaxBrRun
  /\ mem' = [mem EXCEPT ![0] = r.m]
  /\ shm' = r.s
  /\ trace' = Append(trace, [fn |-> fn, a |-> a, b |-> b])
  /\ UNCHANGED idle

Br8Call(op1, op2) ==
  Recorded("log_br8", op1, op2,
           log_br8(mem[0], shm, start.br_id, start.kind, op1, op2))

Br16Call(op1, op2) ==
  Recorded("log_br16", op1, op2,
           log_br16(mem[0], shm, start.br_id, start.kind, op1, op2))

Br32Call(op1, op2) ==
  Recorded("log_br32", op1, op2,
           log_br32(mem[0], shm, start.br_id, start.kind, op1, op2, ub))

Br64Call(op1, op2) ==
  Recorded("log_br64", op1, op2,
           log_br64(mem[0], shm, start.br_id, start.kind, op1, op2, ub))

StrcmpCall(ret) ==
  Recorded("log_strcmp", ret, 0,
           log_strcmp(mem[0], shm, start.br_id, start.kind, ret))

StrncmpCall(len, ret) ==
  Recorded("log_strncmp", ret, len,
           log_strncmp(mem[0], shm, start.br_id, start.kind, len, ret))

NextBr ==
  \/ \E o \in Pairs8 : Br8Call(o[1], o[2])
  \/ \E o \in Pairs16 : Br16Call(o[1], o[2])
  \/ \E o \in Pairs32 : Br32Call(o[1], o[2])
  \/ \E o \in Pairs64 : Br64Call(o[1], o[2])
  \/ \E ret \in StrRets : StrcmpCall(ret)
  \/ \E len \in StrLens, ret \in StrRets : StrncmpCall(len, ret)

SpecBr == InitBr /\ [][NextBr]_vars

(* ------------------------- a capture run ------------------------------- *)

\* the bytes of the map the capture slot takes: int words 0 to 3
CapKeys == 0 .. 15

CaptureFns == {"check_br8", "check_br16", "check_br32", "check_br64",
               "check_strcmp", "check_strncmp"}

\* the target identifiers the controller selects and the ids of the sites
\* the target runs
TargetIds == {1, 258}
SiteIds == {1, 2, 258}

\* operands of the sites, by capture function
CapOps(fn) ==
  CASE fn = "check_br8" -> {<<1, -128>>, <<127, 0>>}
    [] fn = "check_br16" -> {<<-32768, 1>>, <<2, 32767>>}
    [] fn = "check_br32" -> {<<IntMin, 3>>, <<4, IntMax>>}
    [] fn = "check_br64" -> {<<LL(1, 5), LL(-1, -1)>>, <<LL(0, 5), LL(-1, -1)>>,
                             <<LL(0, 6), LL(IntMin, 0)>>}
    [] OTHER -> {<< <<65, 66>>, <<>> >>, << <<-1>>, <<66>> >>}

\* locations of the basic blocks the target runs
CapLocs == {5}

\* the controller has put a target identifier in word 0; the other words
\* are cleared or hold what an earlier capture left
InitCap ==
  /\ ub = "wraps"
  /\ \E t \in TargetIds, old \in {0, 12} :
       Standalone([area |-> PutWord(PutWord([k \in CapKeys |-> 0], 0, t),
                                    3, old),
                   prev_loc |-> 0])

\* what the capture function fn gives for the site br_id with operands o
Check(fn, br_id, o) ==
  CASE fn = "check_br8" -> check_br8(mem[0], shm, br_id, o[1], o[2])
    [] fn = "check_br16" -> check_br16(mem[0], shm, br_id, o[1], o[2])
    [] fn = "check_br32" -> check_br32(mem[0], shm, br_id, o[1], o[2])
    [] fn = "check_br64" -> check_br64(mem[0], shm, br_id, o[1], o[2])
    [] fn = "check_strcmp" -> check_strcmp(mem[0], shm, br_id, o[1], o[2])
    [] fn = "check_strncmp" -> check_strncmp(mem[0], shm, br_id, o[1], o[2])

\* target code runs a site with a capture call, before a capture or in an
\* exit handler.  exit(0) runs the exit handlers and destructors of the
\* target before the process ends; a second call of exit is undefined: the
\* handlers go on, or the process ends there
CapCall(fn, br_id, o) ==
  /\ pc[0] \in {"target", "exiting"}
  /\ Len(trace) < MaxCapRun
  /\ LET r == Check(fn, br_id, o)
     IN  /\ shm' = r.s
         /\ \E nxt \in (IF ~r.exit THEN {pc[0]}
                         ELSE IF pc[0] = "target" THEN {"exiting"}
                         ELSE {"exiting", "done"}) :
              /\ pc' = [pc EXCEPT ![0] = nxt]
              /\ mem' = [mem EXCEPT ![0] = IF nxt = "done" THEN NoMem ELSE r.m]
         /\ trace' = Append(trace, [fn |-> fn, id |-> br_id, o |-> o,
                                    hit |-> r.exit, at |-> pc[0]])
  /\ UNCHANGED <<is_persistent, wstat, locals, n_fork, out, told, n_go, fault,
                 req, calls, ub, start>>

\* target code runs a basic block, before a capture or in an exit handler
CapEdge(cur) ==
  /\ pc[0] \in {"target", "exiting"}
  /\ Len(trace) < MaxCapRun
  /\ LET r == record_edge(mem[0], shm, cur)
     IN  /\ mem' = [mem EXCEPT ![0] = r.m]
         /\ shm' = r.s
  /\ trace' = Append(trace, [fn |-> "record_edge", id |-> cur, o |-> <<>>,
                             hit |-> FALSE, at |-> pc[0]])
  /\ UNCHANGED idle

\* exit(0) is through with the exit handlers
CapExit ==
  /\ pc[0] = "exiting"
  /\ End(0, "exited")
  /\ UNCHANGED <<is_persistent, shm, locals, n_fork, out, told, n_go, fault,
                 req, n_ops, bench>>

NextCap ==
  \/ \E cur \in CapLocs : CapEdge(cur)
  \/ \E fn \in CaptureFns, br_id \in SiteIds :
       \E o \in CapOps(fn) : CapCall(fn, br_id, o)
  \/ CapExit
  \/ TargetExit(0)

SpecCap == InitCap /\ [][NextCap]_vars

(* ------------- a run of calls of all kinds on the same map ------------- *)

Recorders == IntRecorders \cup {"log_strcmp", "log_strncmp"}

\* the ids of the branch sites of the target: a byte next to the capture
\* slot's first operand word and a byte of its sentinel word
MixIds == {5, 12}

\* location of the basic block and value of the guard the target runs
MixLocs == {5}
MixGuards == {12}

\* operands of the sites by recorder, one pair of each polarity; for the
\* string recorders the result and, for log_strncmp, the length
MixOps(fn) ==
  CASE fn \in {"log_br8", "log_br16", "log_br32"} -> {<<1, 0>>, <<0, 1>>}
    [] fn = "log_br64" -> {<<LL(0, 1), LL(0, 0)>>, <<LL(0, 0), LL(0, 1)>>}
    [] OTHER -> {<<0, 2>>, <<1, 2>>}

\* what the recorder fn gives for the site br_id of kind type
Record(fn, m, s, br_id, type, o, u) ==
  CASE fn = "log_br8" -> log_br8(m, s, br_id, type, o[1], o[2])
    [] fn = "log_br16" -> log_br16(m, s, br_id, type, o[1], o[2])
    [] fn = "log_br32" -> log_br32(m, s, br_id, type, o[1], o[2], u)
    [] fn = "log_br64" -> log_br64(m, s, br_id, type, o[1], o[2], u)
    [] fn = "log_strcmp" -> log_strcmp(m, s, br_id, type, o[1])
    [] fn = "log_strncmp" -> log_strncmp(m, s, br_id, type, o[2], o[1])

\* the controller has selected site 5 in word 0 and cleared the rest of the
\* capture slot; the cell of site 5 is unseen or was saturated before
InitMix ==
  /\ ub = "wraps"
  /\ \E fn \in Recorders, persistent \in {0, 1}, cell \in {0, 3} :
       Alone([area |-> [k \in CapKeys |->
                         IF k = 0 THEN 5 ELSE IF k = 5 THEN cell ELSE 0],
              prev_loc |-> 0, fn |-> fn, kind |-> 0, br_id |-> 5],
             persistent)

\* an instrumentation call that is not a capture, with result r, made by
\* target code or by an exit handler
Mixed(fn, id, r) ==
  /\ pc[0] \in {"target", "exiting"}
  /\ Len(trace) < MaxMixRun
  /\ mem' = [mem EXCEPT ![0] = r.m]
  /\ shm' = r.s
  /\ trace' = Append(trace, [fn |-> fn, id |-> id, hit |-> FALSE])
  /\ UNCHANGED idle

MixBr(br_id, o) ==
  Mixed(start.fn, br_id,
        Record(start.fn, mem[0], shm, br_id, start.kind, o, ub))

MixEdge(cur) == Mixed("record_edge", cur, record_edge(mem[0], shm, cur))

MixGuard(guard) ==
  Mixed("trace_pc_guard", guard,
        sanitizer_cov_trace_pc_guard(mem[0], shm, guard))

\* the target runs a site with a capture call: lines 346-357
MixCap(br_id, op1, op2) ==
  /\ pc[0] \in {"target", "exiting"}
  /\ Len(trace) < MaxMixRun
  /\ LET r == check_br32(mem[0], shm, br_id, op1, op2)
     IN  /\ shm' = r.s
         /\ \E nxt \in (IF ~r.exit THEN {pc[0]}
                         ELSE IF pc[0] = "target" THEN {"exiting"}
                         ELSE {"exiting", "done"}) :
              /\ pc' = [pc EXCEPT ![0] = nxt]
              /\ mem' = [mem EXCEPT ![0] = IF nxt = "done" THEN NoMem ELSE r.m]
         /\ trace' = Append(trace, [fn |-> "check_br32", id |-> br_id,
                                    hit |-> r.exit])
  /\ UNCHANGED <<is_persistent, wstat, locals, n_fork, out, told, n_go, fault,
                 req, calls, ub, start>>

\* the target calls __afl_persistent_loop(max_cnt); a process that stops
\* itself stays stopped, nothing continues it here
MixLoop(max_cnt) ==
  /\ pc[0] = "target"
  /\ Len(trace) < MaxMixRun
  /\ LET r == afl_persistent_loop(mem[0], shm, is_persistent, max_cnt)
     IN  /\ mem' = [mem EXCEPT ![0] = r.m]
         /\ shm' = r.s
         /\ pc' = [pc EXCEPT ![0] = IF r.ret = -1 THEN "sigstopped" ELSE @]
  /\ trace' = Append(trace, [fn |-> "__afl_persistent_loop", id |-> max_cnt,
                             hit |-> FALSE])
  /\ UNCHANGED <<is_persistent, wstat, locals, n_fork, out, told, n_go, fault,
                 req, calls, ub, start>>

\* the process is ended by a signal: a crash of the target
MixCrash ==
  /\ pc[0] \in {"target", "exiting"}
  /\ End(0, "killed")
  /\ UNCHANGED <<is_persistent, shm, locals, n_fork, out, told, n_go, fault,
                 req, n_ops, bench>>

NextMix ==
  \/ \E br_id \in MixIds : \E o \in MixOps(start.fn) : MixBr(br_id, o)
  \/ \E cur \in MixLocs : MixEdge(cur)
  \/ \E guard \in MixGuards : MixGuard(guard)
  \/ \E br_id \in MixIds : MixCap(br_id, 7, 9)
  \/ \E max_cnt \in {MaxBudget} : MixLoop(max_cnt)
  \/ CapExit
  \/ TargetExit(0)
  \/ MixCrash

SpecMix == InitMix /\ [][NextMix]_vars

(* ------------------------------ claims --------------------------------- *)

\* the kinds of the messages written since the last go token was read
Kinds_out == [i \in 1 .. Len(out) |-> out[i].kind]

\* a process that is in target code, running or about to run
InTarget(p) == pc[p] \in {"target", "resumed"}

\* C1: for every go token read, the supervisor writes exactly one pid report
\* and then exactly one status report before it reads the next go token, and
\* nothing else in between: when it is back at the read the messages written
\* since the token are <<pid, status>>, and on the way they are a prefix of it
C1_OnePidThenOneStatus ==
  /\ n_go = 0 => Kinds_out \in {<<>>, <<"hello">>}
  /\ n_go > 0 =>
       CASE pc[0] \in {"reap", "spawn", "write_pid"} -> Kinds_out = <<>>
         [] pc[0] \in {"wait", "relay"} -> Kinds_out = <<"pid">>
         [] pc[0] = "read" -> Kinds_out = <<"pid", "status">>
         [] OTHER -> Kinds_out \in {<<>>, <<"pid">>, <<"pid", "status">>}

\* C1 witness: the second request was served and the supervisor is back at
\* the read with a pid report and a status report written
C1_Witness ==
  /\ n_go = 2
  /\ pc[0] = "read"
  /\ Kinds_out = <<"pid", "status">>

\* C2: a forked child that is in target code has both handshake descriptors
\* closed
C2_ChildHasNoHandshakeFd ==
  \A p \in Children :
    pc[p] \in {"target", "sigstopped", "stopped", "resumed"} => mem[p].fds = {}

\* C2 witness: a child has run target code (a call of the helper returned)
\* and holds no handshake descriptor, while the supervisor holds both
C2_Witness ==
  \E p \in Children :
    /\ pc[p] = "target"
    /\ hlp[p].calls > 0
    /\ mem[p].fds = {}
    /\ mem[0].fds = HandshakeFds

\* C3: when the acknowledgement write fails, the supervisor has read no go
\* token, has forked no child and has not terminated the process, which goes
\* on as an ordinary execution
C3_HelloFailureDisengages ==
  fault = "hello" =>
    /\ n_go = 0
    /\ n_fork = 0
    /\ out = <<>>
    /\ pc[0] \in {"target", "sigstopped", "done"}

\* C3 witness: after the failed acknowledgement the process has executed
\* an instrumentation call in target code
C3_Witness ==
  /\ fault = "hello"
  /\ pc[0] = "target"
  /\ n_ops > 0

\* the failures after the acknowledgement that the supervisor does not survive
Fatal == {"read", "reap", "fork", "write_pid", "write_status", "wait"}

\* C4: after a successful acknowledgement, a failed read of the go token, a
\* failed fork, a failed pid or status write and a failed wait (the normal
\* one and the kill-race reap) each terminate the supervisor at once, and
\* after that it writes nothing to the controller, forks no child and
\* continues no child
C4_FatalTerminatesAtOnce ==
  [][ /\ fault' \in Fatal => pc'[0] = "aborted"
      /\ fault \in Fatal =>
           /\ pc'[0] = "aborted"
           /\ fault' = fault
           /\ out' = out
           /\ told' = told
           /\ n_fork' = n_fork
           /\ n_go' = n_go
           /\ \A p \in Children : pc'[p] = "resumed" => pc[p] = "resumed"
    ]_vars

\* C4 witness: the kill-race reap failed, the supervisor has terminated, and
\* the stopped child it was about to write off is still there
C4_Witness ==
  /\ fault = "reap"
  /\ pc[0] = "aborted"
  /\ pc[child_pid] = "sigstopped"

\* the request is one for a stopped child that the token does not report
\* as killed
Resumable == req.prev = "stopped" /\ req.token = 0

\* C5: a request is served by a continue-signal to the previous child,
\* without a fork and with that child's pid reported, exactly when the
\* previous wait reported a stop and the token's was-killed value is zero;
\* every other request is served by a fork and reports the new child's pid
C5_ContinueIffStoppedAndNotKilled ==
  (n_go > 0 /\ req.by # "none") =>
    /\ req.by = "cont" <=> Resumable
    /\ req.by = "cont" => n_fork = req.nf /\ child_pid = req.old
    /\ req.by = "fork" => n_fork = req.nf + 1 /\ child_pid = n_fork
    /\ \A i \in 1 .. Len(out) : out[i].kind = "pid" => out[i].pid = child_pid

\* C5 witness: a request was served by a continue-signal and the pid of the
\* child of the previous request was reported, after an earlier fork
C5_Witness ==
  /\ req.by = "cont"
  /\ pc[0] = "wait"
  /\ out = <<Msg("pid", req.old, "none")>>
  /\ pc[req.old] = "resumed"

\* C6: a request whose token has a non-zero was-killed value and that finds
\* the previous child recorded as stopped is served by a fork, never by a
\* continue-signal, and the previous child was reaped before that fork
C6_KillRaceReapsBeforeFork ==
  (n_go > 0 /\ req.stopped /\ req.token # 0) =>
    /\ req.by # "cont"
    /\ pc[req.old] \in {"sigstopped", "stopped", "zombie", "reaped"}
    /\ (req.by = "fork" \/ n_fork > req.nf) =>
         req.reaped /\ pc[req.old] = "reaped"

\* C6 witness: the stopped child was killed by the controller, the token said
\* so, the child was reaped and a new child was forked
C6_Witness ==
  /\ req.stopped
  /\ req.token # 0
  /\ req.by = "fork"
  /\ wstat[req.old] = "killed"
  /\ pc[req.old] = "reaped"
  /\ pc[child_pid] = "target"

\* C7: from the status report of a request to the read of the next go token
\* no child is executing target code: every child has ended or is stopped,
\* so no child can write to the shared Feedback Map
C7_NoChildRunsBetweenRequests ==
  (pc[0] = "read" /\ n_go > 0) =>
    \A p \in Children :
      pc[p] \in {"none", "sigstopped", "stopped", "zombie", "reaped"}

\* C7 witness: the status of a stopped child that has written to the shared
\* Feedback Map was reported and the supervisor awaits the next go token
C7_Witness ==
  /\ pc[0] = "read"
  /\ n_go > 0
  /\ pc[child_pid] = "sigstopped"
  /\ mem[child_pid].afl_area_ptr = "shm"
  /\ n_ops > 0
  /\ \E k \in Keys : k # 0 /\ shm[k] # 0

\* the results of the first calls of the helper in a process with history h,
\* up to the first 0, are h.budget times 1 and then 0
BudgetKept(h) ==
  (h.calls > 0 /\ h.calls <= h.budget + 1) =>
    IF h.calls <= h.budget
      THEN h.trues = h.calls /\ h.falses = 0 /\ h.last = 1
      ELSE h.trues = h.budget /\ h.falses = 1 /\ h.last = 0

PositiveBudgetKept ==
  is_persistent # 0 =>
    \A p \in Procs :
      /\ hlp[p].budget >= 1 => BudgetKept(hlp[p])
      /\ hlp[p].last = 1 => hlp[p].mark # 0

\* a child called the helper with budget MaxBudget, was stopped and
\* continued between the calls, and got 1 MaxBudget times and then 0
PositiveBudgetSeen ==
  /\ is_persistent # 0
  /\ \E p \in Children :
       /\ hlp[p].budget = MaxBudget
       /\ hlp[p].calls = MaxBudget + 1
       /\ hlp[p].trues = MaxBudget
       /\ hlp[p].stops = MaxBudget - 1
       /\ hlp[p].last = 0

\* the step is a call of the helper by p that returns or stops
HelperStep(p) ==
  \/ \E max_cnt \in Budgets : PersistentLoop(p, max_cnt)
  \/ LoopResume(p)

\* C9: with persistent mode inactive the helper returns 1 on the first call
\* and 0 on every later call, whatever the budget, and no call changes the
\* Feedback Map (shared or private), the previous-location register or the
\* active-buffer pointer, or stops the process
C9_InactiveHelperIsNoOp ==
  [][ is_persistent = 0 =>
        \A p \in Procs :
          (hlp'[p] # hlp[p] /\ HelperStep(p)) =>
            /\ hlp'[p].calls = hlp[p].calls + 1
            /\ hlp'[p].last = IF hlp[p].calls = 0 THEN 1 ELSE 0
            /\ shm' = shm
            /\ mem'[p].afl_area_initial = mem[p].afl_area_initial
            /\ mem'[p].afl_prev_loc = mem[p].afl_prev_loc
            /\ mem'[p].afl_area_ptr = mem[p].afl_area_ptr
            /\ pc'[p] = "target"
    ]_vars

\* C9 witness: with persistent mode inactive a process attached to the shared
\* map has written to it, and its second call of the helper, with a budget
\* of 2 on the first, has returned 0
C9_Witness ==
  /\ is_persistent = 0
  /\ \E p \in Procs :
       /\ hlp[p].budget = 2
       /\ hlp[p].calls = 2
       /\ hlp[p].last = 0
       /\ mem[p].afl_area_ptr = "shm"
       /\ \E k \in Keys : k # 0 /\ shm[k] # 0

\* the step is one of target code in process p
TargetStep(p) ==
  \/ \E cur \in Keys : RecordEdge(p, cur)
  \/ \E guard \in Keys : RecordGuard(p, guard)
  \/ \E br_id \in Keys, type \in Kinds, op1 \in Ops8, op2 \in Ops8 :
       LogBr8(p, br_id, type, op1, op2)
  \/ HelperStep(p)

\* C10: with persistent mode active, the call that exhausts the budget
\* returns 0 and sets the active buffer to the private fallback buffer, and
\* from that call on no edge, guard or branch recording and no call of the
\* helper by that process changes the shared Feedback Map
C10_NoSharedWriteAfterExhaustion ==
  [][ is_persistent # 0 =>
        \A p \in Procs :
          /\ (hlp[p].falses = 0 /\ hlp'[p].falses = 1 /\ HelperStep(p)) =>
               /\ mem'[p].afl_area_ptr = "initial"
               /\ mem'[p].cycle_cnt = U32Of(0)
               /\ hlp'[p].last = 0
               /\ shm' = shm
          /\ (hlp[p].falses > 0 /\ shm' # shm) => ~TargetStep(p)
    ]_vars

\* C10 witness: a child that was attached to the shared map has exhausted
\* its budget and has then made an instrumentation call, which went to its
\* private buffer
C10_Witness ==
  /\ is_persistent # 0
  /\ mem[0].afl_area_ptr = "shm"
  /\ \E p \in Children :
       /\ hlp[p].falses > 0
       /\ mem[p].afl_area_ptr = "initial"
       /\ mem[p].afl_area_initial # ZeroMap

\* a xor b for a, b in [0, EDGE_SIZE), bit by bit
BitXor(a, b) ==
  CHOOSE k \in EdgeKeys :
    \A i \in 0 .. (EdgeBits - 1) :
      (k \div 2 ^ i) % 2 = ((a \div 2 ^ i) + (b \div 2 ^ i)) % 2

RECURSIVE PrevAt(_, _)
\* the previous-location register before call i of the run t
PrevAt(t, i) ==
  IF i = 1 THEN start.prev_loc
  ELSE IF t[i - 1].fn = "record_edge" THEN t[i - 1].arg \div 2
  ELSE PrevAt(t, i - 1)

\* the key call i of the run t counts at
KeyAt(t, i) ==
  IF t[i].fn = "record_edge" THEN BitXor(t[i].arg, PrevAt(t, i)) ELSE t[i].arg

\* a step of the run: call number Len(trace') was made
Called1 == Len(trace') = Len(trace) + 1

\* C11: from any map and register, record_edge(cur) with cur in [0, N) adds
\* 1 modulo 256 to the entry map[cur XOR previous_location_register], leaves
\* every other entry unchanged and sets the register to cur >> 1; over a
\* sequence of calls no entry outside the set of derived keys changes
C11_EdgeBumpsOneEntry ==
  [][ (Called1 /\ trace'[Len(trace')].fn = "record_edge") =>
        LET cur == trace'[Len(trace')].arg
            key == BitXor(cur, mem[0].afl_prev_loc)
        IN  /\ \A k \in EdgeKeys :
                 shm'[k] = IF k = key THEN (shm[k] + 1) % 256 ELSE shm[k]
            /\ mem'[0].afl_prev_loc = cur \div 2
            /\ mem'[0].afl_area_initial = mem[0].afl_area_initial
            /\ \A k \in EdgeKeys :
                 (\A i \in 1 .. Len(trace') : KeyAt(trace', i) # k) =>
                   shm'[k] = start.area[k]
    ]_vars

\* C11 witness: a run of record_edge calls with a non-zero register hit a
\* key other than the location, wrapped a counter from 255 to 0 and left a
\* non-zero counter alone
C11_Witness ==
  /\ Len(trace) = MaxEdgeRun
  /\ \A i \in 1 .. Len(trace) : trace[i].fn = "record_edge"
  /\ KeyAt(trace, Len(trace)) # trace[Len(trace)].arg
  /\ \E k \in EdgeKeys : start.area[k] = 255 /\ shm[k] = 0
  /\ \E k \in EdgeKeys : start.area[k] # 0 /\ shm[k] = start.area[k]

\* C20: the edge hit counter is saturating: an entry that has reached 255
\* stays at 255 under further record_edge or record_guard hits
C20_EdgeCounterSaturates ==
  [][ Called1 => \A k \in EdgeKeys : shm[k] = 255 => shm'[k] = 255 ]_vars

\* C20 as amended: the edge hit counter wraps: a record_edge or record_guard
\* hit on an entry that has reached 255 sets it to 0, a hit on an entry
\* below 255 adds 1, and an entry at 255 that is not hit stays at 255
C20_EdgeCounterWraps ==
  [][ Called1 =>
        LET key == KeyAt(trace', Len(trace'))
        IN  /\ shm[key] = 255 => shm'[key] = 0
            /\ shm[key] < 255 => shm'[key] = shm[key] + 1
            /\ \A k \in EdgeKeys : (k # key /\ shm[k] = 255) => shm'[k] = 255
    ]_vars

\* C20 witness: a guard hit took a counter from 255 to 0 and an edge hit
\* on the same key then took it to 1
C20_Witness ==
  /\ Len(trace) >= 2
  /\ trace[1].fn = "trace_pc_guard"
  /\ trace[2].fn = "record_edge"
  /\ KeyAt(trace, 1) = KeyAt(trace, 2)
  /\ start.area[KeyAt(trace, 1)] = 255
  /\ shm[KeyAt(trace, 1)] = 1

\* the 2-bit state in the cell of the followed site in the map a
BrState(a) == a[start.br_id] % 4

\* the tie-break table: the predicate of the kind on the distance d
TablePredicate(kind, d) ==
  \/ kind \in {0, 1} /\ d > 0
  \/ kind \in {2, 7, 11} /\ d = 0
  \/ kind \in {3, 4} /\ d >= 0
  \/ kind \in {5, 6} /\ d < 0
  \/ kind \in {8, 9} /\ d <= 0

\* the distance the recorder computes in call c
Distance(c) ==
  CASE c.fn \in {"log_br8", "log_br16"} -> c.a - c.b
    [] c.fn = "log_br32" -> br_dist32(c.a, c.b, ub)
    [] c.fn = "log_br64" -> br_dist64(c.a, c.b, ub)
    [] OTHER -> c.a

\* call c is of 'this polarity': the predicate of the kind of the site is
\* true of its distance, or the string comparison gave 0
This(c) ==
  IF c.fn \in IntRecorders THEN TablePredicate(start.kind, Distance(c))
                           ELSE c.a = 0

\* the kind of the followed site is one the table has a row for
InTable == start.fn \in IntRecorders => start.kind \in BrKinds

\* C12: for every branch-distance recorder and a cell that starts unseen,
\* the 2-bit state only moves upward in unseen < {1, 2} < 3 under any
\* sequence of recorder calls: never 1 to 2, 2 to 1 or back to 0, and once
\* it is 3 every further call for that id leaves the cell unchanged
C12_BranchStateOnlyRises ==
  [][ Called1 =>
        LET old == BrState(shm)
            new == BrState(shm')
        IN  /\ old = new \/ old = 0 \/ (old \in {1, 2} /\ new = 3)
            /\ old = 3 => shm' = shm
    ]_vars

\* C12 witness: a log_br64 site went from unseen to one polarity, to 3 by
\* a call of the other polarity, and was then called again
C12_Witness ==
  /\ start.fn = "log_br64"
  /\ Len(trace) = MaxBrRun
  /\ This(trace[1]) /\ ~This(trace[2])
  /\ shm[start.br_id] = 3

\* the map after call c on the map a
AfterCall(c, a) ==
  (CASE c.fn = "log_br8" ->
          log_br8(mem[0], a, start.br_id, start.kind, c.a, c.b)
     [] c.fn = "log_br16" ->
          log_br16(mem[0], a, start.br_id, start.kind, c.a, c.b)
     [] c.fn = "log_br32" ->
          log_br32(mem[0], a, start.br_id, start.kind, c.a, c.b, ub)
     [] c.fn = "log_br64" ->
          log_br64(mem[0], a, start.br_id, start.kind, c.a, c.b, ub)
     [] c.fn = "log_strcmp" ->
          log_strcmp(mem[0], a, start.br_id, start.kind, c.a)
     [] c.fn = "log_strncmp" ->
          log_strncmp(mem[0], a, start.br_id, start.kind, c.b, c.a)).s

RECURSIVE Replay(_, _)
\* the map after the first n calls of the stream t
Replay(t, n) == IF n = 0 THEN start.area ELSE AfterCall(t[n], Replay(t, n - 1))

\* the stream t with calls i and i + 1 in the other order
Swapped(t, i) ==
  [j \in 1 .. Len(t) |-> IF j = i THEN t[i + 1] ELSE IF j = i + 1 THEN t[i]
                          ELSE t[j]]

\* C13: for a fixed kind and a cell that starts unseen, after any finite
\* stream of operand pairs the cell is saturated (3) if and only if the
\* stream held a pair for which the kind's predicate is true and a pair for
\* which it is false; every permutation of the stream gives the same final
\* state (every stream being reached, exchanging two neighbours is enough)
C13_SaturatedIffBothPolarities ==
  InTable =>
    /\ BrState(shm) = 3 <=>
         /\ \E i \in 1 .. Len(trace) : This(trace[i])
         /\ \E j \in 1 .. Len(trace) : ~This(trace[j])
    /\ \A i \in 1 .. (Len(trace) - 1) :
         BrState(Replay(Swapped(trace, i), Len(trace))) = BrState(shm)

\* C13 witness: a log_br32 site of a kind with a tie rule got two pairs of
\* one polarity, one of them with a difference outside int, and then a pair
\* of the other polarity
C13_Witness ==
  /\ start.fn = "log_br32"
  /\ start.kind \in {3, 4, 8, 9}
  /\ Len(trace) = 3
  /\ This(trace[1]) = This(trace[2])
  /\ This(trace[2]) # This(trace[3])
  /\ \E i \in 1 .. 2 : Ovf32(trace[i].a, trace[i].b)
  /\ shm[start.br_id] = 3

\* the state a call of polarity this moves the state old to
TableMove(old, this) ==
  IF this THEN (CASE old = 0 -> 1 [] old = 2 -> 3 [] old = 1 -> 1)
          ELSE (CASE old = 0 -> 2 [] old = 1 -> 3 [] old = 2 -> 2)

\* C14: for a non-saturated cell each integer recorder classifies the call
\* as 'this polarity' by the table predicate of the kind on the distance
\* (kinds 0,1: > 0; 2,7,11: = 0; 3,4: >= 0; 5,6: < 0; 8,9: <= 0) and the
\* string recorders by result = 0; 'this polarity' moves unseen to 1 and 2
\* to 3, the other polarity moves unseen to 2 and 1 to 3, and a repeat of
\* the polarity already seen leaves the cell unchanged
C14_PolarityTable ==
  [][ (Called1 /\ InTable /\ BrState(shm) # 3) =>
        LET old == BrState(shm)
            new == TableMove(old, This(trace'[Len(trace')]))
        IN  /\ BrState(shm') = new
            /\ start.fn # "log_strncmp" => shm'[start.br_id] = new
            /\ new = old => shm' = shm
            /\ \A k \in EdgeKeys : k # start.br_id => shm'[k] = shm[k]
    ]_vars

\* C14 witness: a log_br16 site of kind 8 or 9 got a tie, which is of this
\* polarity, a repeat of it, and then a pair of the other polarity
C14_Witness ==
  /\ start.fn = "log_br16"
  /\ start.kind \in {8, 9}
  /\ Len(trace) = 3
  /\ trace[1].a = trace[1].b
  /\ This(trace[2])
  /\ trace[3].a > trace[3].b
  /\ shm[start.br_id] = 3

\* call i of the capture run was a capture call that matched
Hit(i) == trace[i].fn \in CaptureFns /\ trace[i].hit

\* the two ints a capture call makes of its operands: the operands of the
\* 8-, 16- and 32-bit functions, the low halves of those of check_br64 and
\* the first chars of those of the string functions
Operand(c, n) ==
  CASE c.fn \in {"check_br8", "check_br16", "check_br32"} -> c.o[n]
    [] c.fn = "check_br64" -> c.o[n].lo
    [] OTHER -> IF c.o[n] = <<>> THEN 0 ELSE c.o[n][1]

\* C15: for every capture variant, a call whose branch id differs from the
\* target identifier in the first 32-bit word of the Feedback Map changes
\* no byte of the Feedback Map and does not terminate the process
C15_MismatchIsNoOp ==
  [][ (Called1 /\ trace'[Len(trace')].fn \in CaptureFns
               /\ trace'[Len(trace')].id # Word(shm, 0)) =>
        /\ shm' = shm
        /\ mem'[0] = mem[0]
        /\ pc'[0] = pc[0]
    ]_vars

\* C15 witness: the target made MaxCapRun capture calls of different
\* variants for ids other than the target identifier and runs on
C15_Witness ==
  /\ Len(trace) = MaxCapRun
  /\ \A i \in 1 .. Len(trace) :
       trace[i].fn \in CaptureFns /\ trace[i].id # Word(start.area, 0)
  /\ trace[1].fn = "check_br64"
  /\ trace[2].fn = "check_strcmp"
  /\ pc[0] = "target"
  /\ shm = start.area

\* C16: in a capture run the first capture call whose branch id equals the
\* target identifier writes the two operand words and the sentinel 12 into
\* the capture slot and then terminates the process; no instrumentation
\* call is executed or recorded after it, so at process end the slot holds
\* the operands of that first matching occurrence
C16_FirstMatchEndsRun ==
  \A i \in 1 .. Len(trace) :
    (Hit(i) /\ \A j \in 1 .. (i - 1) : ~Hit(j)) =>
      /\ pc[0] \in {"exiting", "done"}
      /\ Len(trace) = i
      /\ Word(shm, 1) = Operand(trace[i], 1)
      /\ Word(shm, 2) = Operand(trace[i], 2)
      /\ Word(shm, 3) = 12

\* as long as no exit handler of the target has made an instrumentation
\* call, the slot holds the operands of the first matching call and the
\* sentinel, and the process is in exit(0) or has ended
FirstMatchWritesSlot ==
  \A i \in 1 .. Len(trace) :
    (Hit(i) /\ Len(trace) = i /\ \A j \in 1 .. (i - 1) : ~Hit(j)) =>
      /\ pc[0] \in {"exiting", "done"}
      /\ Word(shm, 1) = Operand(trace[i], 1)
      /\ Word(shm, 2) = Operand(trace[i], 2)
      /\ Word(shm, 3) = 12

\* C17: when persistent mode is not in effect the supervisor waits for the
\* exit of the child only and never records a child as stopped, even one that
\* is stopped: child_stopped stays 0, no stop status is relayed, every request
\* is served by a fresh fork, one fork for each go token, and neither the
\* continue-signal nor the kill-race reap is ever performed
C17_InactiveNeverRecordsStop ==
  is_persistent = 0 =>
    /\ child_stopped = 0
    /\ status # "stopped"
    /\ pc[0] # "reap"
    /\ req.by # "cont"
    /\ ~req.reaped
    /\ \A i \in 1 .. Len(out) : out[i].kind = "status" => out[i].st # "stopped"
    /\ (n_go > 0 /\ pc[0] \in {"write_pid", "wait", "relay", "read"}) =>
         /\ req.by = "fork"
         /\ n_fork = n_go
         /\ child_pid = n_go

\* C17 witness: without persistent mode two go tokens were each served by a
\* fork, and the supervisor goes on waiting for a child that is stopped
C17_Witness ==
  /\ is_persistent = 0
  /\ n_go = 2
  /\ n_fork = 2
  /\ req.by = "fork"
  /\ pc[0] = "wait"
  /\ pc[child_pid] = "stopped"

\* the children that were forked and are not reaped: running, suspended or
\* ended and still waited for
Unreaped == {p \in Children : pc[p] \notin {"none", "reaped"}}

\* C18: in every reachable state the supervisor has at most one unreaped
\* child, and it is the child of the last fork, so at most one child at a
\* time has the shared Feedback Map attached while it can still run
C18_AtMostOneUnreapedChild ==
  /\ Cardinality(Unreaped) <= 1
  /\ Unreaped \subseteq {child_pid}
  /\ \A p \in Children : p > n_fork => pc[p] = "none"

\* C18 witness: the first child was reaped and the second child, forked after
\* it, is suspended with the shared Feedback Map attached and not reaped
C18_Witness ==
  /\ n_fork = 2
  /\ pc[1] = "reaped"
  /\ pc[2] = "sigstopped"
  /\ mem[2].afl_area_ptr = "shm"
  /\ Unreaped = {2}

\* p is stopped in a call of the helper, or was continued and has not
\* returned from it yet
Suspended(p) == pc[p] \in {"sigstopped", "resumed"}

\* p, running under persistent mode, has called the helper with a budget of
\* at least 1
Looping(p) == is_persistent # 0 /\ hlp[p].calls > 0 /\ hlp[p].budget >= 1

\* the self-suspensions of p are one before each 1 but the first, none
\* before the first 1 and none before the 0: budget - 1 of them when the 0
\* has been returned
OneStopBetweenTrues(p) ==
  LET h == hlp[p]
  IN  /\ h.stops = IF Suspended(p) THEN h.trues
                   ELSE IF h.trues = 0 THEN 0 ELSE h.trues - 1
      /\ Suspended(p) => h.trues >= 1 /\ h.trues < h.budget /\ h.falses = 0
      /\ h.falses >= 1 => h.stops = h.budget - 1

\* the stop statuses the supervisor recorded for p, which nothing but the
\* helper stopped, are the self-suspensions of p: at most the one p is in
\* has not been recorded yet, and they are budget - 1 when the 0 has been
\* returned
StopsObserved(p) ==
  LET h == hlp[p]
  IN  h.sig = 0 =>
        /\ h.seen \in {h.stops - 1, h.stops}
        /\ h.seen = h.stops - 1 => pc[p] = "sigstopped"
        /\ pc[p] = "resumed" => h.seen = h.stops
        /\ h.falses >= 1 => h.seen = h.budget - 1

\* the step on which the continued process p returns from the helper leaves
\* 1 in the mark byte of the active map and 0 in the register
ResumeResets(p) ==
  (pc[p] = "resumed" /\ pc'[p] = "target") =>
    /\ Area(mem'[p], shm')[0] = 1
    /\ mem'[p].afl_prev_loc = 0
    /\ hlp'[p].trues = hlp[p].trues + 1

\* the step on which the supervisor reaps p records the status p ended
\* with, which is not a stop status
ExitObserved(p) ==
  (pc[p] = "zombie" /\ pc'[p] = "reaped") =>
    /\ pc[0] \in {"wait", "reap"}
    /\ status' = wstat[p]
    /\ status' \in {"exited", "killed"}

NoCallAfterFalse(p) ==
  /\ hlp[p].calls <= hlp[p].budget + 1
  /\ hlp[p].falses >= 1 => ~Suspended(p)

\* up to the 0 and as long as the helper is not called after it, the
\* suspensions and the recorded stop statuses are as C19 counts them
StopsUpToFalse ==
  /\ [](\A p \in Children :
          (Looping(p) /\ NoCallAfterFalse(p)) =>
            OneStopBetweenTrues(p) /\ StopsObserved(p))
  /\ [][\A p \in Children : ResumeResets(p) /\ ExitObserved(p)]_vars

\* a child with budget MaxBudget was suspended, recorded as stopped and
\* continued MaxBudget - 1 times, wrote to the map in between, and got the 0
StopsUpToFalseSeen ==
  /\ is_persistent # 0
  /\ n_ops > 0
  /\ \E p \in Children :
       /\ pc[p] = "target"
       /\ hlp[p].budget = MaxBudget
       /\ hlp[p].falses = 1
       /\ hlp[p].calls = MaxBudget + 1
       /\ hlp[p].stops = MaxBudget - 1
       /\ hlp[p].seen = MaxBudget - 1
       /\ hlp[p].sig = 0

\* -1, 0 or 1 as x is negative, zero or positive
Sgn(x) == IF x > 0 THEN 1 ELSE IF x < 0 THEN -1 ELSE 0

\* -1, 0 or 1 as the first operand of call c is less than, equal to or
\* greater than the second, as signed values of the recorder's width
Order(c) ==
  IF c.fn = "log_br64" THEN Cmp64(c.a, c.b)
  ELSE IF c.a > c.b THEN 1 ELSE IF c.a < c.b THEN -1 ELSE 0

\* the exact difference of the operands of call c is outside the type of
\* br_dist
Overflows(c) ==
  CASE c.fn = "log_br32" -> Ovf32(c.a, c.b)
    [] c.fn = "log_br64" -> Ovf64(c.a, c.b)
    [] OTHER -> FALSE

\* C21: for each integer recorder and every pair of operands of its width
\* the distance it computes is positive, zero or negative exactly when the
\* first operand is greater than, equal to or less than the second
C21_DistanceSignIsOrder ==
  \A i \in 1 .. Len(trace) :
    trace[i].fn \in IntRecorders =>
      Sgn(Distance(trace[i])) = Order(trace[i])

\* the sign of the distance is the order of the operands for every pair
\* whose exact difference is in the type of br_dist, and for every pair in
\* a build that made comparisons of the operands of the tests
DistanceSignWithoutOverflow ==
  \A i \in 1 .. Len(trace) :
    (trace[i].fn \in IntRecorders /\ (~Overflows(trace[i]) \/ ub = "folded"))
      => Sgn(Distance(trace[i])) = Order(trace[i])

\* the cell of the followed site after log_strcmp is called with result ret
\* on a cell that holds the state bits of the map a and nothing else
StrcmpMove(a, ret) ==
  log_strcmp(mem[0], [a EXCEPT ![start.br_id] = BrState(a)], start.br_id,
             start.kind, ret).s[start.br_id]

\* C22: for log_strncmp and every length passed, 64 and more included, the
\* two low bits of the cell move as the cell of log_strcmp moves for the
\* same result, a cell whose two low bits are 3 is left as it is whatever
\* its high bits hold, and no other byte of the map changes
C22_LengthKeepsStateBits ==
  [][ (Called1 /\ start.fn = "log_strncmp") =>
        LET c == trace'[Len(trace')]
        IN  /\ BrState(shm') = StrcmpMove(shm, c.a)
            /\ BrState(shm) = 3 => shm' = shm
            /\ \A k \in EdgeKeys : k # start.br_id => shm'[k] = shm[k]
    ]_vars

\* C22 witness: a log_strncmp site got an equal result with a length of at
\* least 64, then an unequal one with a length that fills the six high bits,
\* and was called again on the saturated cell
C22_Witness ==
  /\ start.fn = "log_strncmp"
  /\ Len(trace) = 3
  /\ trace[1].a = 0 /\ trace[1].b >= 64
  /\ trace[2].a # 0 /\ trace[2].b = 255
  /\ shm[start.br_id] = 255

\* the step is a call of the followed run
MixStep == Len(trace') = Len(trace) + 1

\* the function called on the step
MixFn == trace'[Len(trace')].fn

\* the cells of the branch sites that read saturated keep their byte
SaturatedKept == \A k \in MixIds : shm[k] = 3 => shm'[k] = 3

\* C23: once a branch state cell reads saturated (3), no runtime operation
\* on the same map changes its byte: no branch recorder call for any id, no
\* record_edge, no guard recording, no capture call and no map zeroing or
\* mark-byte write of the persistent-loop helper
C23_SaturatedCellImmutable ==
  [][MixStep => SaturatedKept]_vars

\* C23 as amended: once a branch state cell reads saturated (3), no branch
\* recorder call, for its id or for any other, changes its byte
C23_RecordersKeepSaturated ==
  [][(MixStep /\ MixFn \in Recorders) => SaturatedKept]_vars

\* C23 witness: the cell of site 5 went from unseen to saturated by two
\* recorder calls and still reads 3 after a recorder call for site 12
C23_Witness ==
  /\ start.area[5] = 0
  /\ Len(trace) = 3
  /\ \A i \in 1 .. 3 : trace[i].fn \in Recorders
  /\ trace[1].id = 5 /\ trace[2].id = 5 /\ trace[3].id = 12
  /\ shm[5] = 3
  /\ shm[12] # 0

\* the int w is the operand op of the capture function fn: the same number
\* for the integer variants, the whole string for the string variants
HoldsOperand(fn, op, w) ==
  CASE fn \in {"check_br8", "check_br16", "check_br32"} -> w = op
    [] fn = "check_br64" -> op.lo = w /\ op.hi = (IF w < 0 THEN -1 ELSE 0)
    [] OTHER -> op = (IF w = 0 THEN <<>> ELSE <<w>>)

\* the two operand words of the capture slot in the map a
SlotOperands(a) == <<Word(a, 1), Word(a, 2)>>

\* call i is the first matching capture call and nothing was called since
FirstMatchJustMade(i) ==
  Hit(i) /\ Len(trace) = i /\ \A j \in 1 .. (i - 1) : ~Hit(j)

\* C24: for every capture variant and every operand pair of its width the
\* two operand words a matching call stores are the operands passed, those
\* of the 64-bit variant without loss, and a matching call with another
\* operand pair leaves other slot contents
C24_SlotHoldsOperands ==
  \A i \in 1 .. Len(trace) :
    (FirstMatchJustMade(i) /\ pc[0] = "exiting") =>
      LET c == trace[i]
      IN  /\ HoldsOperand(c.fn, c.o[1], Word(shm, 1))
          /\ HoldsOperand(c.fn, c.o[2], Word(shm, 2))
          /\ \A o \in CapOps(c.fn) :
               o # c.o =>
                 SlotOperands(Check(c.fn, c.id, o).s) # SlotOperands(shm)

\* the 8-, 16- and 32-bit variants do store the operands passed, and other
\* operand pairs give other slot contents
NarrowOperandsKept ==
  \A i \in 1 .. Len(trace) :
    (FirstMatchJustMade(i) /\ pc[0] = "exiting"
       /\ trace[i].fn \in {"check_br8", "check_br16", "check_br32"}) =>
      LET c == trace[i]
      IN  /\ HoldsOperand(c.fn, c.o[1], Word(shm, 1))
          /\ HoldsOperand(c.fn, c.o[2], Word(shm, 2))
          /\ \A o \in CapOps(c.fn) :
               o # c.o =>
                 SlotOperands(Check(c.fn, c.id, o).s) # SlotOperands(shm)

\* a matching call of a narrow variant was made with operands at the ends
\* of the range of its width
NarrowOperandsSeen ==
  /\ Len(trace) = 1
  /\ FirstMatchJustMade(1)
  /\ pc[0] = "exiting"
  /\ trace[1].fn = "check_br32"
  /\ trace[1].o = <<IntMin, 3>>

\* a capture call of the run matched the target identifier
Captured == \E i \in 1 .. Len(trace) : trace[i].hit

\* C25: in a run started with the sentinel word of the capture slot
\* cleared, that word is 12 at process end if and only if a capture call
\* matched the target identifier
C25_SentinelIffCaptured ==
  pc[0] = "done" => (Word(shm, 3) = 12 <=> Captured)

\* in a run whose instrumentation calls are all capture calls the sentinel
\* word is 12 at process end if and only if one of them matched
SentinelOfCaptureOnlyRun ==
  (pc[0] = "done" /\ \A i \in 1 .. Len(trace) : trace[i].fn = "check_br32")
    => (Word(shm, 3) = 12 <=> Captured)

\* a run of capture calls only has ended after a match, and another without
SentinelOfCaptureOnlyRunSeen ==
  /\ pc[0] = "done"
  /\ Len(trace) = 2
  /\ \A i \in 1 .. Len(trace) : trace[i].fn = "check_br32"
  /\ Captured
  /\ Word(shm, 3) = 12

\* without a matching capture call the sentinel word is 12 at process end
SentinelForged ==
  pc[0] = "done" /\ Word(shm, 3) = 12 /\ ~Captured

\* after a matching capture call the sentinel word is not 12 at process end
SentinelLost ==
  pc[0] = "done" /\ Word(shm, 3) # 12 /\ Captured

\* p is a process that has memory: it was started or forked and has not ended
Alive(p) == {pc[p], pc'[p]} \cap {"none", "zombie", "reaped", "done", "aborted"} = {}

\* the step changes the active destination pointer of the live process p
PtrChanged(p) ==
  Alive(p) /\ mem'[p].afl_area_ptr # mem[p].afl_area_ptr

\* the step is the attach of __afl_map_shm, before any request is served
InAttach(p) ==
  /\ p = 0
  /\ pc[0] = "map_shm"
  /\ n_go = 0
  /\ n_fork = 0
  /\ mem'[0].afl_area_ptr = "shm"

\* the step is the call of the helper, under persistent mode, that returns 0
InExhaustion(p) ==
  /\ is_persistent # 0
  /\ pc[p] = "target"
  /\ hlp'[p].falses = hlp[p].falses + 1
  /\ mem[p].afl_area_ptr = "shm"
  /\ mem'[p].afl_area_ptr = "initial"

\* the pointer of every process is one of the two buffers
OneBuffer == \A p \in Procs : mem[p].afl_area_ptr \in {"initial", "shm"}

C27_EdgeKeyInsideMap ==
  /\ [](pc[0] = "target" =>
          /\ mem[0].afl_prev_loc \in 0 .. (EDGE_SIZE \div 2 - 1)
          /\ DOMAIN shm = EdgeKeys)
  /\ [][ (Called1 /\ trace'[Len(trace')].fn = "record_edge") =>
           LET key == Xor(mem[0].afl_prev_loc, trace'[Len(trace')].arg)
           IN  /\ key \in EdgeKeys
               /\ shm'[key] # shm[key]
     ]_vars

\* C27 witness: from register 0 the location N - 1 took the register to
\* N/2 - 1, its largest value, and the next call hit the key N - 1, the
\* last entry of the map
C27_Witness ==
  /\ start.prev_loc = 0
  /\ Len(trace) = 2
  /\ \A i \in 1 .. 2 : trace[i].fn = "record_edge"
  /\ trace[1].arg = EDGE_SIZE - 1
  /\ PrevAt(trace, 2) = EDGE_SIZE \div 2 - 1
  /\ KeyAt(trace, 2) = EDGE_SIZE - 1
  /\ trace[2].arg # EDGE_SIZE - 1

RearmedAfterFalse ==
  /\ is_persistent # 0
  /\ \E p \in Children :
       /\ hlp[p].falses = 1
       /\ hlp[p].last = 1
       /\ hlp[p].trues = hlp[p].budget + 1
       /\ mem[p].cycle_cnt = U32Dec(U32Of(0))
       /\ mem[p].afl_area_ptr = "initial"

\* no call of the supervisor fails: the controller keeps the handshake pipe
\* open, and fork and waitpid succeed
NoFatal == [](pc[0] # "aborted")

\* a child that runs is, again and again, not running: it has ended or has
\* suspended itself in the helper
ChildrenProgress ==
  \A p \in Children :
    []<>(pc[p] \in {"none", "sigstopped", "zombie", "reaped"})

\* the token of a request says was-killed only if the controller has killed
\* the child the supervisor had then
HonestWasKilled ==
  []((n_go > 0 /\ req.token # 0 /\ req.old \in Children) =>
       wstat[req.old] = "killed")

\* the request does not need a process id beyond the MaxPid of the model
PidLeft == (pc[0] \in {"reap", "spawn"} /\ child_stopped = 0) => n_fork < MaxPid

\* a go token was read and its status report is not written yet
InRequest ==
  /\ n_go > 0
  /\ pc[0] \in {"reap", "spawn", "write_pid", "wait", "relay"}
  /\ PidLeft

\* the pid and the status of the request are written and the supervisor
\* awaits the next go token
Served == pc[0] = "read" /\ Kinds_out = <<"pid", "status">>

\* C29: under fairness, if the controller keeps the handshake pipe open,
\* every running child eventually exits or suspends itself, and was-killed
\* is set only for a child the controller has killed, then every go token
\* is eventually followed by its status report and the supervisor is back
\* awaiting the next request: it never stays in a wait for ever
C29_EveryTokenIsAnswered ==
  (NoFatal /\ ChildrenProgress /\ HonestWasKilled) => (InRequest ~> Served)

\* C29 witness: a request that found the previous child stopped and killed
\* was served, through the blocking reap and a fork, and the child of the
\* fork has suspended itself
C29_Witness ==
  /\ Served
  /\ req.reaped
  /\ req.by = "fork"
  /\ req.last = "stopped"
  /\ pc[child_pid] = "sigstopped"

=========================================================================
